---- MODULE Spec2Model ----
(***************************************************************************)
(* Provider registry and dispatch of product-reviews.                      *)
(*                                                                         *)
(* The model covers plugin discovery (entry points and the plugins         *)
(* directory), the Registry with its lazily loaded, cached name-keyed      *)
(* mapping, and the dispatch operation parse_reviews.                      *)
(***************************************************************************)
EXTENDS Integers, Sequences, FiniteSets, TLC

\* ------------------------------------------------------------------------
\* Bounds of the model
\* ------------------------------------------------------------------------
MaxEps == 2
MaxFs == 1
MaxLoads == 2
MaxReviews == 3
MaxTestUrls == 2
MaxHealthReviews == 2
MaxRequests == 2
MaxCaptures == 2

\* ------------------------------------------------------------------------
\* Values
\* ------------------------------------------------------------------------
\* A class that declares no `name`: reading cls.name raises AttributeError.
NoName == "<no name>"

Names == {"a", "b"}

\* The order of str comparison on the provider names of the model: upper
\* case sorts before lower case, so "JSON FS" < "a" < "b" < "com" < "p" < "shop".
NameRank(n) ==
    CASE n = "JSON FS" -> 1
      [] n = "a" -> 2
      [] n = "b" -> 3
      [] n = "com" -> 4
      [] n = "p" -> 5
      [] n = "shop" -> 6

\* URLs and patterns are strings, written as sequences of characters.
Urls == { <<"x">>, <<"x", "y">>, <<"z">> }

\* url_regex is one pattern or an ordered list of patterns.
RegexX == [isList |-> FALSE, pats |-> << <<"x">> >>]
RegexXY == [isList |-> TRUE, pats |-> << <<"x", "y">>, <<"y">> >>]
NoRegex == [isList |-> TRUE, pats |-> << >>]

\* Bounded sequences over S.
BSeq(S, n) == UNION { [1..k -> S] : k \in 0..n }

\* ------------------------------------------------------------------------
\* Python objects a plugin can expose
\* ------------------------------------------------------------------------
\* isType: isinstance(obj, type); isProvider: issubclass(obj, BaseReviewsProvider);
\* isBase: obj is BaseReviewsProvider.
ProviderObj(n, rx) ==
    [isType |-> TRUE, isProvider |-> TRUE, isBase |-> FALSE, name |-> n, url_regex |-> rx]

NotAClassObj ==
    [isType |-> FALSE, isProvider |-> FALSE, isBase |-> FALSE, name |-> NoName, url_regex |-> NoRegex]

PlainClassObj ==
    [isType |-> TRUE, isProvider |-> FALSE, isBase |-> FALSE, name |-> NoName, url_regex |-> NoRegex]

BaseObj ==
    [isType |-> TRUE, isProvider |-> TRUE, isBase |-> TRUE, name |-> NoName, url_regex |-> NoRegex]

\* Python's None, where an object is expected.
None ==
    [isType |-> FALSE, isProvider |-> FALSE, isBase |-> FALSE, name |-> "None", url_regex |-> NoRegex]

\* A provider subclass that declares no name.
NamelessProviderObj == ProviderObj(NoName, RegexX)

\* The class object as the registry holds it: origin and idx tell apart two
\* classes that declare the same name.
Cls(origin, idx, obj) ==
    [origin |-> origin, idx |-> idx, name |-> obj.name, url_regex |-> obj.url_regex]

\* ------------------------------------------------------------------------
\* BaseReviewsProvider.check_url
\* ------------------------------------------------------------------------
\* re.match(pattern, url) for a literal pattern: the pattern matches at the
\* start of the url.
re_match(pat, url) ==
    /\ Len(pat) <= Len(url)
    /\ \A i \in 1..Len(pat) : pat[i] = url[i]

check_url(cls, url) ==
    IF cls.url_regex.isList
    THEN \E i \in 1..Len(cls.url_regex.pats) : re_match(cls.url_regex.pats[i], url)
    ELSE re_match(cls.url_regex.pats[1], url)

\* ------------------------------------------------------------------------
\* Entry-point loader
\* ------------------------------------------------------------------------
\* An entry point: ep.load() raises, or returns obj.
EpRaises == [load |-> "raises", obj |-> NotAClassObj]
EpObj(obj) == [load |-> "ok", obj |-> obj]

EntryPoints ==
    { EpRaises, EpObj(NotAClassObj), EpObj(PlainClassObj), EpObj(NamelessProviderObj) }
    \cup { EpObj(ProviderObj(n, rx)) : n \in Names, rx \in {RegexX, RegexXY} }

\* One iteration of the loop of load_entry_point_providers: does it yield?
ep_yields(ep) ==
    /\ ep.load = "ok"
    /\ ep.obj.isType
    /\ ep.obj.isProvider

RECURSIVE load_entry_point_providers_from(_, _)
load_entry_point_providers_from(es, i) ==
    IF i > Len(es) THEN << >>
    ELSE IF ep_yields(es[i])
         THEN << Cls("ep", i, es[i].obj) >> \o load_entry_point_providers_from(es, i + 1)
         ELSE load_entry_point_providers_from(es, i + 1)

load_entry_point_providers(es) == load_entry_point_providers_from(es, 1)

\* ------------------------------------------------------------------------
\* Filesystem loader
\* ------------------------------------------------------------------------
\* An entry of the plugins directory.  name is the name of the entry, which
\* spec_from_file_location makes the __name__ of the plugin module, as the
\* sequence of its parts between dots; attrs lists the attributes of the
\* plugin module in the order of dir(module) (sorted by attribute name:
\* upper case before lower case).
FsDir(name, isDir, hidden, hasFile, execOk, attrs) ==
    [name |-> name, is_dir |-> isDir, hidden |-> hidden, has_file |-> hasFile,
     exec_ok |-> execOk, attrs |-> attrs]

\* An entry called "shop".
FsEntry(isDir, hidden, hasFile, execOk, attrs) ==
    FsDir(<< "shop" >>, isDir, hidden, hasFile, execOk, attrs)

Attr(a, obj) == [attr |-> a, obj |-> obj]

FsPlugin(attrs) == FsEntry(TRUE, FALSE, TRUE, TRUE, attrs)

FsEntries ==
    { FsEntry(FALSE, FALSE, FALSE, TRUE, << >>),      \* a plain file
      FsEntry(TRUE, TRUE, TRUE, TRUE, << Attr("provider", ProviderObj("a", RegexX)) >>),  \* "_x", ".x"
      FsEntry(TRUE, FALSE, FALSE, TRUE, << >>),       \* no provider.py
      FsEntry(TRUE, FALSE, TRUE, FALSE, << >>),       \* provider.py raises on import
      FsPlugin(<< Attr("BaseReviewsProvider", BaseObj) >>),
      FsPlugin(<< Attr("provider", NotAClassObj) >>),
      FsPlugin(<< Attr("provider", NamelessProviderObj) >>) }
    \cup { FsPlugin(<< Attr("BaseReviewsProvider", BaseObj), Attr("provider", ProviderObj(n, rx)) >>) :
             n \in Names, rx \in {RegexX, RegexXY} }

\* getattr(module, a, None)
module_getattr(attrs, a) ==
    IF \E i \in 1..Len(attrs) : attrs[i].attr = a
    THEN attrs[CHOOSE i \in 1..Len(attrs) : attrs[i].attr = a].obj
    ELSE None

scan_hit(obj) == obj.isType /\ obj.isProvider /\ ~obj.isBase

\* f"{module_name.title()}Provider" for the names of the model.
titled_provider(module_name) ==
    CASE module_name = "shop" -> "ShopProvider"
      [] module_name = "com" -> "ComProvider"
      [] module_name = "jsonfs" -> "JsonfsProvider"
      [] module_name = "dummy" -> "DummyProvider"

\* _find_provider_in_module(module): module_name is the part of __name__
\* after its last dot.
find_provider_in_module(module) ==
    LET attrs == module.attrs
        module_name == module.name[Len(module.name)]
    IN
    IF module_getattr(attrs, "provider") # None THEN module_getattr(attrs, "provider")
    ELSE IF module_getattr(attrs, titled_provider(module_name)) # None
    THEN module_getattr(attrs, titled_provider(module_name))
    ELSE IF \E i \in 1..Len(attrs) : scan_hit(attrs[i].obj)
         THEN attrs[CHOOSE i \in 1..Len(attrs) :
                      /\ scan_hit(attrs[i].obj)
                      /\ \A j \in 1..(i - 1) : ~scan_hit(attrs[j].obj)].obj
         ELSE None

\* load_fs_provider: the class object, or None.  Reading provider_class.name
\* for the debug message raises AttributeError for a nameless class, which
\* the except clause turns into None.
load_fs_provider(d) ==
    IF ~d.is_dir THEN None
    ELSE IF ~d.has_file THEN None
    ELSE IF ~d.exec_ok THEN None
    ELSE LET provider_class == find_provider_in_module(d) IN
         IF provider_class = None THEN None
         ELSE IF ~provider_class.isType \/ ~provider_class.isProvider THEN None
         ELSE IF provider_class.name = NoName THEN None
         ELSE provider_class

\* One iteration of the loop of load_fs_providers: does it yield?
fs_yields(d) ==
    /\ d.is_dir
    /\ ~d.hidden
    /\ load_fs_provider(d) # None

\* The plugins directory: exists tells whether it is a directory, entries
\* lists it in the order of iterdir().
PluginsDir(exists, entries) == [exists |-> exists, entries |-> entries]
NoDir == PluginsDir(FALSE, << >>)

RECURSIVE load_fs_providers_from(_, _)
load_fs_providers_from(ds, i) ==
    IF i > Len(ds) THEN << >>
    ELSE IF fs_yields(ds[i])
         THEN << Cls("fs", i, load_fs_provider(ds[i])) >> \o load_fs_providers_from(ds, i + 1)
         ELSE load_fs_providers_from(ds, i + 1)

load_fs_providers(dir) ==
    IF ~dir.exists THEN << >> ELSE load_fs_providers_from(dir.entries, 1)

\* ------------------------------------------------------------------------
\* Merge of the two loaders
\* ------------------------------------------------------------------------
iter_all_providers(es, dir) == load_entry_point_providers(es) \o load_fs_providers(dir)

\* A dict is the sequence of its items in insertion order.
Item(k, v) == [key |-> k, val |-> v]

dict_keys(m) == [i \in 1..Len(m) |-> m[i].key]

dict_values(m) == [i \in 1..Len(m) |-> m[i].val]

dict_has(m, k) == \E i \in 1..Len(m) : m[i].key = k

dict_get(m, k) == m[CHOOSE i \in 1..Len(m) : m[i].key = k].val

\* Variant of dict_set: a key that is set again moves to the end.
dict_set_move_to_end(m, k, v) ==
    LET others(item) == item.key # k IN Append(SelectSeq(m, others), [key |-> k, val |-> v])

\* Variant of dict_set: an existing key keeps its first value.
dict_set_keep_first(m, k, v) ==
    IF \E i \in 1..Len(m) : m[i].key = k THEN m ELSE Append(m, [key |-> k, val |-> v])

\* m[k] = v: an existing key keeps its position, a new key goes last.
dict_set(m, k, v) ==
    IF dict_has(m, k)
    THEN [i \in 1..Len(m) |-> IF m[i].key = k THEN Item(k, v) ELSE m[i]]
    ELSE Append(m, Item(k, v))

\* The loop of load_all_providers_map over the classes cs from the i-th on:
\* providers[provider_class.name] = provider_class.
RECURSIVE build_map(_, _, _)
build_map(cs, i, m) ==
    IF i > Len(cs) THEN m ELSE build_map(cs, i + 1, dict_set(m, cs[i].name, cs[i]))

\* load_all_providers_map: exc is "" and map the mapping built, or exc is
\* AttributeError, raised by provider_class.name when a yielded class
\* declares no name.
load_all_providers_map(es, dir) ==
    LET cs == iter_all_providers(es, dir) IN
    IF \E i \in 1..Len(cs) : cs[i].name = NoName
    THEN [exc |-> "AttributeError", map |-> << >>]
    ELSE [exc |-> "", map |-> build_map(cs, 1, << >>)]

\* ------------------------------------------------------------------------
\* State
\* ------------------------------------------------------------------------
VARIABLES
    eps,            \* the installed entry points of the group, in enumeration order
    plugins_dir,    \* the plugins directory the registry is configured with
    providers,      \* Registry._providers: loaded tells None from a mapping
    loadCalls,      \* number of calls of load_all_providers_map
    fresh,          \* no query since the construction or the last clear_cache
    firstQueries,   \* number of queries made while fresh
    neverCleared,   \* clear_cache has not been called on the instance
    site,           \* what a call of get_reviews on the matched provider does
    last,           \* the last operation, its argument and its outcome
    test_urls,      \* test_urls of the provider class under health check or test
    invalid_urls,   \* invalid_urls of that provider class
    provider_name,  \* name of that provider class, character by character
    fetch_of,       \* what get_reviews of that provider does, for each url
    program,        \* the HTTP requests get_reviews of that provider makes, for each url
    web,            \* the responses the network gives to each request, call after call
    mocks,          \* the mock files of that provider, by url type and url index
    cache,          \* the response cache of the recorder, by provider and test case
    gen,            \* the generator a call of iter_providers has returned
    live,           \* the last captured run: what it returned and the exchanges captured
    client,         \* what requests.get and requests.post are bound to
    contexts        \* the capture contexts entered so far, in order of entry

\* The provider under health check, and the harness around it.
healthVars == <<test_urls, invalid_urls, provider_name, fetch_of>>
patchVars == <<client, contexts>>
harnessVars == <<program, web, mocks, cache, live, patchVars>>

vars == <<eps, plugins_dir, providers, loadCalls, fresh, firstQueries, neverCleared, site, last,
          gen, healthVars, harnessVars>>

\* Registry._providers is None
Unloaded == [loaded |-> FALSE, map |-> << >>]

NoCls == Cls("none", 0, None)

\* The outcome of an operation: exc is "" when it returned value.
Returned(v) == [exc |-> "", value |-> v]
Raised(e, v) == [exc |-> e, value |-> v]

Outcome(op, arg, r) == [op |-> op, arg |-> arg, exc |-> r.exc, value |-> r.value]

\* ------------------------------------------------------------------------
\* Registry
\* ------------------------------------------------------------------------
\* Variant of load_providers: a discovery that raises leaves an empty mapping
\* cached.
load_providers_caches_failure(reg, es, dir) ==
    IF ~reg.loaded
    THEN LET r == load_all_providers_map(es, dir) IN
         IF r.exc # ""
         THEN [exc |-> r.exc, reg |-> [loaded |-> TRUE, map |-> << >>], calls |-> 1]
         ELSE [exc |-> "", reg |-> [loaded |-> TRUE, map |-> r.map], calls |-> 1]
    ELSE [exc |-> "", reg |-> reg, calls |-> 0]

\* Registry._load_providers: the registry afterwards, the number of discovery
\* calls made and the exception that escaped, if any.
load_providers(reg, es, dir) ==
    IF ~reg.loaded
    THEN LET r == load_all_providers_map(es, dir) IN
         IF r.exc # ""
         THEN [exc |-> r.exc, reg |-> reg, calls |-> 1]
         ELSE [exc |-> "", reg |-> [loaded |-> TRUE, map |-> r.map], calls |-> 1]
    ELSE [exc |-> "", reg |-> reg, calls |-> 0]

\* sorted(values, key=lambda x: x.name): a stable insertion of each element
\* after the elements whose key is not greater.
RECURSIVE insert_by_name(_, _)
insert_by_name(s, c) ==
    IF s = << >> THEN << c >>
    ELSE IF NameRank(c.name) < NameRank(Head(s).name)
         THEN << c >> \o s
         ELSE << Head(s) >> \o insert_by_name(Tail(s), c)

RECURSIVE sorted_by_name_from(_, _, _)
sorted_by_name_from(m, i, acc) ==
    IF i > Len(m) THEN acc ELSE sorted_by_name_from(m, i + 1, insert_by_name(acc, m[i]))

sorted_by_name(m) == sorted_by_name_from(m, 1, << >>)

\* The first class of s, in order, whose check_url accepts url; NoCls if none.
first_match(s, url) ==
    IF \E i \in 1..Len(s) : check_url(s[i], url)
    THEN s[CHOOSE i \in 1..Len(s) :
             /\ check_url(s[i], url)
             /\ \A j \in 1..(i - 1) : ~check_url(s[j], url)]
    ELSE NoCls

no_provider_msg(url) == [text |-> "No provider found for URL: ", url |-> url]

\* Variant of get_provider_for_url: scans the providers sorted by name.
get_provider_for_url_sorted(m, url) ==
    IF first_match(sorted_by_name(dict_values(m)), url) # NoCls
    THEN Returned(first_match(sorted_by_name(dict_values(m)), url))
    ELSE Raised("ProviderLoadError", no_provider_msg(url))

get_provider_for_url(m, url) ==
    IF first_match(dict_values(m), url) # NoCls
    THEN Returned(first_match(dict_values(m), url))
    ELSE Raised("ProviderLoadError", no_provider_msg(url))

\* self._load_providers().items(): the pairs a generator of iter_providers
\* yields, in the order of the mapping.
iter_providers(m) == Returned([i \in 1..Len(m) |-> << m[i].key, m[i].val >>])

\* A generator of iter_providers: "none" when none has been made, "created"
\* before its first next(), "suspended" at a yield with the items still to
\* come, "closed" once it has returned or raised.
Generator(state, items) == [state |-> state, items |-> items]
NoGenerator == Generator("none", << >>)

\* next(it) on a generator that is suspended at a yield, or has just got its
\* items: the next item, or StopIteration when none is left.
generator_yield(items) ==
    IF items = << >>
    THEN [gen |-> Generator("closed", << >>), result |-> Raised("StopIteration", << >>)]
    ELSE [gen |-> Generator("suspended", Tail(items)), result |-> Returned(Head(items))]

\* Variant of list_providers: the providers in the order of the mapping.
list_providers_unsorted(m) == Returned(dict_values(m))

\* sorted(self._providers.values(), key=lambda p: p.name)
list_providers(m) == Returned(sorted_by_name(dict_values(m)))

get_provider_class(m, n) ==
    IF dict_has(m, n) THEN Returned(dict_get(m, n)) ELSE Raised("KeyError", n)

\* sorted(keys): a stable insertion of each key after the keys not greater.
RECURSIVE insert_name(_, _)
insert_name(s, k) ==
    IF s = << >> THEN << k >>
    ELSE IF NameRank(k) < NameRank(Head(s))
         THEN << k >> \o s
         ELSE << Head(s) >> \o insert_name(Tail(s), k)

RECURSIVE sorted_names_from(_, _, _)
sorted_names_from(ks, i, acc) ==
    IF i > Len(ks) THEN acc ELSE sorted_names_from(ks, i + 1, insert_name(acc, ks[i]))

get_provider_names(m) == Returned(sorted_names_from(dict_keys(m), 1, << >>))

\* An instance of the class.
Instance(c) == [instance_of |-> c]

get_provider(m, n) ==
    IF get_provider_class(m, n).exc = ""
    THEN Returned(Instance(get_provider_class(m, n).value))
    ELSE get_provider_class(m, n)

\* A query: _load_providers, then the answer from the mapping.  An exception
\* of discovery escapes the query.
Query(op, arg, lp, answer) ==
    /\ loadCalls + lp.calls <= MaxLoads
    /\ providers' = lp.reg
    /\ loadCalls' = loadCalls + lp.calls
    /\ firstQueries' = IF fresh THEN firstQueries + 1 ELSE firstQueries
    /\ fresh' = FALSE
    /\ last' = IF lp.exc # "" THEN Outcome(op, arg, Raised(lp.exc, << >>))
               ELSE Outcome(op, arg, answer)
    /\ UNCHANGED <<eps, plugins_dir, neverCleared, site, gen, healthVars, harnessVars>>

GetProviderForUrl ==
    \E url \in Urls :
        LET lp == load_providers(providers, eps, plugins_dir) IN
        Query("get_provider_for_url", url, lp, get_provider_for_url(lp.reg.map, url))

\* it = registry.iter_providers(): the call returns a generator and runs
\* nothing of the body, so no discovery is made.  The model follows one
\* generator.
IterProviders ==
    /\ gen.state = "none"
    /\ gen' = Generator("created", << >>)
    /\ last' = Outcome("iter_providers", << >>, Returned("generator"))
    /\ UNCHANGED <<eps, plugins_dir, providers, loadCalls, fresh, firstQueries, neverCleared,
                   site, healthVars, harnessVars>>

\* The first next(it): the body runs _load_providers, an exception of which
\* ends the generator, and yields the first item of the mapping it got.
GeneratorStart ==
    /\ gen.state = "created"
    /\ LET lp == load_providers(providers, eps, plugins_dir)
           y == generator_yield(iter_providers(lp.reg.map).value)
       IN  /\ loadCalls + lp.calls <= MaxLoads
           /\ providers' = lp.reg
           /\ loadCalls' = loadCalls + lp.calls
           /\ firstQueries' = IF fresh THEN firstQueries + 1 ELSE firstQueries
           /\ fresh' = FALSE
           /\ gen' = IF lp.exc # "" THEN Generator("closed", << >>) ELSE y.gen
           /\ last' = IF lp.exc # "" THEN Outcome("next", << >>, Raised(lp.exc, << >>))
                      ELSE Outcome("next", << >>, y.result)
    /\ UNCHANGED <<eps, plugins_dir, neverCleared, site, healthVars, harnessVars>>

\* A later next(it): the generator goes on over the items of the mapping it
\* got, whatever the registry holds by now.
GeneratorNext ==
    /\ gen.state = "suspended"
    /\ gen' = generator_yield(gen.items).gen
    /\ last' = Outcome("next", << >>, generator_yield(gen.items).result)
    /\ UNCHANGED <<eps, plugins_dir, providers, loadCalls, fresh, firstQueries, neverCleared,
                   site, healthVars, harnessVars>>

ListProviders ==
    LET lp == load_providers(providers, eps, plugins_dir) IN
    Query("list_providers", << >>, lp, list_providers(lp.reg.map))

GetProviderClass ==
    \E n \in Names :
        LET lp == load_providers(providers, eps, plugins_dir) IN
        Query("get_provider_class", n, lp, get_provider_class(lp.reg.map, n))

GetProviderNames ==
    LET lp == load_providers(providers, eps, plugins_dir) IN
    Query("get_provider_names", << >>, lp, get_provider_names(lp.reg.map))

GetProvider ==
    \E n \in Names :
        LET lp == load_providers(providers, eps, plugins_dir) IN
        Query("get_provider", n, lp, get_provider(lp.reg.map, n))

clear_cache(reg) == Unloaded

ClearCache ==
    /\ providers' = clear_cache(providers)
    /\ fresh' = TRUE
    /\ neverCleared' = FALSE
    /\ last' = Outcome("clear_cache", << >>, Returned(<< >>))
    /\ UNCHANGED <<eps, plugins_dir, loadCalls, firstQueries, site, gen, healthVars, harnessVars>>

\* The plugins the registry-level specifications draw from.
CoreEntryPoints ==
    { EpRaises, EpObj(NamelessProviderObj),
      EpObj(ProviderObj("a", RegexX)), EpObj(ProviderObj("b", RegexXY)), EpObj(ProviderObj("b", RegexX)) }

CoreFsEntries ==
    { FsPlugin(<< Attr("provider", NotAClassObj) >>),
      FsPlugin(<< Attr("BaseReviewsProvider", BaseObj), Attr("provider", ProviderObj("a", RegexXY)) >>),
      FsPlugin(<< Attr("BaseReviewsProvider", BaseObj), Attr("provider", ProviderObj("b", RegexX)) >>) }

\* ------------------------------------------------------------------------
\* Dispatch
\* ------------------------------------------------------------------------
\* A value of a field that is declared Optional[str] but is not checked when
\* the review is built: its type and its repr.
PyVal(type, repr) == [type |-> type, repr |-> repr]
PyNone == PyVal("NoneType", "None")

\* bool(v)
truth(v) ==
    CASE v.type = "NoneType" -> FALSE
      [] v.type = "str" -> v.repr # ""
      [] v.type = "int" -> v.repr # "0"
      [] v.type = "list" -> v.repr # "[]"
      [] OTHER -> TRUE

\* isinstance(v, str)
isinstance_str(v) == v.type = "str"

\* ------------------------------------------------------------------------
\* Timestamps
\* ------------------------------------------------------------------------
\* datetime(..., tzinfo=tz, fold=fold): the wall clock in whole hours, the
\* microsecond within it, the time zone and the fold.  The time zone is << >>
\* for a naive datetime, a fixed offset (datetime.timezone) or a zone with
\* rules (zoneinfo.ZoneInfo).
Datetime(wall, microsecond, tzinfo, fold) ==
    [wall |-> wall, microsecond |-> microsecond, tzinfo |-> tzinfo, fold |-> fold]

FixedOffset(hours) == << [kind |-> "timezone", offset |-> hours] >>

\* A zone that is two hours ahead of UTC up to wall clock hour 2 and one
\* hour ahead after it: the clocks are set back, and hour 2 happens twice,
\* the fold telling which.
RulesZone == << [kind |-> "ZoneInfo", offset |-> 0] >>

\* dt.utcoffset() for an aware datetime.
utcoffset(dt) ==
    IF dt.tzinfo[1].kind = "timezone" THEN dt.tzinfo[1].offset
    ELSE IF dt.wall < 2 THEN 2
    ELSE IF dt.wall > 2 THEN 1
    ELSE IF dt.fold = 0 THEN 2 ELSE 1

\* The offset of dt depends on its fold: dt is in a repeated interval.
fold_matters(dt) ==
    dt.tzinfo # << >> /\ utcoffset(dt) # utcoffset([dt EXCEPT !.fold = 1 - dt.fold])

\* The time dt denotes: the wall clock, less the offset when dt is aware.
instant(dt) == IF dt.tzinfo = << >> THEN dt.wall ELSE dt.wall - utcoffset(dt)

\* The hour a and b are compared by: datetimes of one time zone, and naive
\* ones, compare by wall clock whatever the fold; aware datetimes of
\* different time zones compare by the time they denote.
compared_hour(dt, other) == IF dt.tzinfo = other.tzinfo THEN dt.wall ELSE instant(dt)

\* a < b or a > b raises TypeError: one is naive and the other aware.
datetime_incomparable(a, b) == (a.tzinfo = << >>) # (b.tzinfo = << >>)

\* a > b and a >= b, as the sort compares the keys.
datetime_gt(a, b) ==
    \/ compared_hour(a, b) > compared_hour(b, a)
    \/ compared_hour(a, b) = compared_hour(b, a) /\ a.microsecond > b.microsecond

datetime_ge(a, b) ==
    \/ compared_hour(a, b) > compared_hour(b, a)
    \/ compared_hour(a, b) = compared_hour(b, a) /\ a.microsecond >= b.microsecond

\* a == b: the fold is not compared; a naive and an aware datetime are never
\* equal; aware datetimes of one time zone compare by wall clock, those of
\* different time zones by the time they denote, except that a datetime in
\* a repeated interval equals no datetime of another time zone.
datetime_eq(a, b) ==
    IF a.tzinfo = << >> \/ b.tzinfo = << >>
    THEN a.tzinfo = b.tzinfo /\ a.wall = b.wall /\ a.microsecond = b.microsecond
    ELSE IF a.tzinfo = b.tzinfo
    THEN a.wall = b.wall /\ a.microsecond = b.microsecond
    ELSE /\ ~fold_matters(a)
         /\ ~fold_matters(b)
         /\ instant(a) = instant(b)
         /\ a.microsecond = b.microsecond

\* dt.isoformat(): the wall clock, the microseconds when they are not 0, and
\* the offset when dt is aware.  The parts of the string, in order.
isoformat(dt) ==
    [wall |-> dt.wall,
     fraction |-> IF dt.microsecond = 0 THEN << >> ELSE << dt.microsecond >>,
     offset |-> IF dt.tzinfo = << >> THEN << >> ELSE << utcoffset(dt) >>]

\* datetime.fromisoformat(s): a missing fraction is 0 microseconds, a missing
\* offset makes a naive datetime, an offset makes a fixed-offset time zone.
fromisoformat(s) ==
    Datetime(s.wall,
             IF s.fraction = << >> THEN 0 ELSE s.fraction[1],
             IF s.offset = << >> THEN << >> ELSE FixedOffset(s.offset[1]),
             0)

\* datetime(2020, 1, 1, 1) and datetime(2020, 1, 1, 2), naive.
T1 == Datetime(1, 0, << >>, 0)
T2 == Datetime(2, 0, << >>, 0)

\* A review with all its fields: created_at and rating are << >> for None and
\* << v >> for the value v.
ReviewOf(t, r, text, pros, cons, summary) ==
    [created_at |-> t, rating |-> r, text |-> text, pros |-> pros, cons |-> cons,
     summary |-> summary]

\* Review(rating=r, created_at=t): the text fields default to None.  The
\* rating tells apart reviews of the same timestamp.
Review(t, r) == ReviewOf(t, << r >>, PyNone, PyNone, PyNone, PyNone)

Reviews ==
    { Review(<< T1 >>, 5), Review(<< T1 >>, 3), Review(<< T2 >>, 5), Review(<< >>, 5) }

\* Reviews of aware timestamps: hour 2 of the zone with rules at fold 0 and
\* at fold 1, an hour apart but of one wall clock, and a microsecond after
\* hour 0 of UTC, which lies between the two.
AwareReviews ==
    { Review(<< Datetime(2, 0, RulesZone, 0) >>, 5),
      Review(<< Datetime(0, 1, FixedOffset(0), 0) >>, 4),
      Review(<< Datetime(2, 0, RulesZone, 1) >>, 3) }

\* What get_reviews may raise: the HTTP client's exceptions (HTTPError,
\* ConnectionError and Timeout are siblings under RequestException), the
\* package's own conditions, and anything else.
HttpClientErrors == {"HTTPError", "ConnectionError", "Timeout"}

FetchErrors ==
    HttpClientErrors \cup {"InvalidURLError", "ReviewsParseException", "ValueError"}

\* What one call of get_reviews does: raises exc, or returns reviews, as a
\* list or (wrapped) as the reviews of a ProviderReviewList object.
\* cause is the __cause__ of the exception raised, "" for None.
Fetch(exc, reviews) == [exc |-> exc, reviews |-> reviews, wrapped |-> FALSE, cause |-> ""]
FetchWrapped(reviews) == [exc |-> "", reviews |-> reviews, wrapped |-> TRUE, cause |-> ""]

\* raise exc from cause
FetchRaisedFrom(exc, cause) ==
    [exc |-> exc, reviews |-> << >>, wrapped |-> FALSE, cause |-> cause]

\* get_reviews raises, or returns a list of reviews of naive timestamps and
\* None, a list of reviews of aware timestamps, a list that holds a naive
\* and an aware timestamp, or a ProviderReviewList object.
Fetches ==
    { Fetch(e, << >>) : e \in FetchErrors }
    \cup { Fetch("", rs) : rs \in BSeq(Reviews, MaxReviews) \cup BSeq(AwareReviews, MaxReviews) }
    \cup { Fetch("", << Review(<< T1 >>, 5), Review(<< Datetime(2, 0, RulesZone, 0) >>, 5) >>) }
    \cup { FetchWrapped(<< Review(<< T1 >>, 5) >>) }

\* except HTTPError
is_HTTPError(e) == e = "HTTPError"

\* The comparison list.sort makes between two reviews: the created_at of x
\* is less than the created_at of y.
key_lt(x, y) == datetime_gt(y.created_at[1], x.created_at[1])

\* The list s in reverse order.
reversed(s) == [i \in 1..Len(s) |-> s[Len(s) + 1 - i]]

\* list.sort on fewer than 64 items is one run: the run at the head of the
\* list is found by comparing neighbours, and the items after it are put in
\* by binary insertion.  Only the comparison "less than" is made.
\* run_end: the run of n items at the head of a goes on while the next item
\* is less than its neighbour (a descending run) or is not (an ascending one).
RECURSIVE run_end(_, _, _)
run_end(a, n, descending) ==
    IF n >= Len(a) THEN n
    ELSE IF key_lt(a[n + 1], a[n]) = descending THEN run_end(a, n + 1, descending)
    ELSE n

\* The run at the head of a list of two items or more: it is descending
\* when the second item is less than the first.
count_run(a) ==
    LET descending == key_lt(a[2], a[1])
    IN  [n |-> run_end(a, 2, descending), descending |-> descending]

\* The place of pivot among the first r items of a, found between the
\* positions l and r (counted from 0) by halving; l < r.
RECURSIVE binary_search(_, _, _, _)
binary_search(a, pivot, l, r) ==
    LET p == l + ((r - l) \div 2)
        less == key_lt(pivot, a[p + 1])
        l2 == IF less THEN l ELSE p + 1
        r2 == IF less THEN p ELSE r
    IN  IF l2 < r2 THEN binary_search(a, pivot, l2, r2) ELSE l2

\* The items of a after the first start are inserted, one after the other,
\* among those before them.
RECURSIVE binarysort(_, _)
binarysort(a, start) ==
    IF start >= Len(a) THEN a
    ELSE LET pivot == a[start + 1]
             l == binary_search(a, pivot, 0, start)
         IN  binarysort(SubSeq(a, 1, l) \o << pivot >> \o SubSeq(a, l + 1, start)
                            \o SubSeq(a, start + 2, Len(a)),
                        start + 1)

\* The ascending sort of a: a descending run at the head is reversed first.
list_sort(a) ==
    IF Len(a) < 2 THEN a
    ELSE LET run == count_run(a)
             head == IF run.descending
                     THEN reversed(SubSeq(a, 1, run.n)) \o SubSeq(a, run.n + 1, Len(a))
                     ELSE a
         IN  binarysort(head, run.n)

\* reviews.sort(key=lambda x: x.created_at, reverse=True): the list is
\* reversed, sorted ascending and reversed again, so that reviews of equal
\* keys keep their order.
sort_desc(rs) == reversed(list_sort(reversed(rs)))

\* Comparing a None key, or a naive with an aware datetime, raises
\* TypeError; a list of fewer than two reviews is not compared at all.
sort_reviews(rs) ==
    IF Len(rs) < 2 THEN Returned(rs)
    ELSE IF \E i \in 1..Len(rs) : rs[i].created_at = << >>
    THEN Raised("TypeError", << >>)
    ELSE IF \E i, j \in 1..Len(rs) :
                datetime_incomparable(rs[i].created_at[1], rs[j].created_at[1])
    THEN Raised("TypeError", << >>)
    ELSE Returned(sort_desc(rs))

\* _check_matched_provider: the first class of registry.list_providers()
\* whose check_url accepts the url, or None.
check_matched_provider(m, url) == first_match(list_providers(m).value, url)

no_matched_msg(url) == [text |-> "No matched providers for ", url |-> url]

ProviderReviewList(c, rs) == [provider |-> c.name, reviews |-> rs]

\* The outcome of _parse_reviews on the mapping m when get_reviews of the
\* matched provider does f: the exception or the value, the chained cause,
\* the class instantiated and the number of get_reviews calls.  A
\* ProviderReviewList object that get_reviews returns has no sort method.
Dispatched(r, cause, cls, calls) ==
    [exc |-> r.exc, value |-> r.value, cause |-> cause, instantiated |-> cls, fetches |-> calls]

\* Variant of parse_reviews: the lookup error of the registry escapes when no
\* provider accepts the url.
parse_reviews_lookup_error(m, url, f) ==
    IF check_matched_provider(m, url) = NoCls
    THEN Dispatched(get_provider_for_url(m, url), "", NoCls, 0)
    ELSE Dispatched(Returned(ProviderReviewList(check_matched_provider(m, url), f.reviews)),
                    "", check_matched_provider(m, url), 1)

parse_reviews(m, url, f) ==
    LET provider_class == check_matched_provider(m, url) IN
    IF provider_class = NoCls
    THEN Dispatched(Raised("NoMatchedProvidersException", no_matched_msg(url)), "", NoCls, 0)
    ELSE IF f.exc # ""
         THEN IF is_HTTPError(f.exc)
              THEN Dispatched(Raised("ReviewsParseException", << >>), f.exc, provider_class, 1)
              ELSE Dispatched(Raised(f.exc, << >>), f.cause, provider_class, 1)
         ELSE IF f.wrapped
         THEN Dispatched(Raised("AttributeError", "'ProviderReviewList' object has no attribute 'sort'"),
                         "", provider_class, 1)
         ELSE IF sort_reviews(f.reviews).exc # ""
              THEN Dispatched(sort_reviews(f.reviews), "", provider_class, 1)
              ELSE Dispatched(Returned(ProviderReviewList(provider_class, sort_reviews(f.reviews).value)),
                              "", provider_class, 1)

\* ProductReviewsService.parse_reviews(url) on the registry.  The provider is
\* looked up through registry.list_providers(), a query of the registry;
\* get_reviews of the matched provider does what site says.
ParseReviews ==
    \E url \in Urls :
        LET lp == load_providers(providers, eps, plugins_dir)
            d == parse_reviews(lp.reg.map, url, site)
        IN  /\ loadCalls + lp.calls <= MaxLoads
            /\ providers' = lp.reg
            /\ loadCalls' = loadCalls + lp.calls
            /\ firstQueries' = IF fresh THEN firstQueries + 1 ELSE firstQueries
            /\ fresh' = FALSE
            /\ last' = IF lp.exc # ""
                       THEN [op |-> "parse_reviews", arg |-> url, exc |-> lp.exc,
                             value |-> << >>, cause |-> "", instantiated |-> NoCls, fetches |-> 0]
                       ELSE [op |-> "parse_reviews", arg |-> url, exc |-> d.exc,
                             value |-> d.value, cause |-> d.cause,
                             instantiated |-> d.instantiated, fetches |-> d.fetches]
            /\ UNCHANGED <<eps, plugins_dir, neverCleared, site, gen, healthVars, harnessVars>>

\* ------------------------------------------------------------------------
\* Health check
\* ------------------------------------------------------------------------
\* ReviewListValidator.check_review_fields: "not x" rejects None and every
\* other falsy value; a text field is looked at only when it is truthy.
check_review_fields(review) ==
    IF review.created_at = << >>
    THEN Raised("ReviewValidationError", "Review created_at is required")
    ELSE IF review.rating = << >> \/ review.rating[1] = 0
    THEN Raised("ReviewValidationError", "Review rating is required")
    ELSE IF truth(review.text) /\ ~isinstance_str(review.text)
    THEN Raised("ReviewValidationError", "Review text must be a string")
    ELSE IF truth(review.pros) /\ ~isinstance_str(review.pros)
    THEN Raised("ReviewValidationError", "Review pros must be a string")
    ELSE IF truth(review.cons) /\ ~isinstance_str(review.cons)
    THEN Raised("ReviewValidationError", "Review cons must be a string")
    ELSE IF truth(review.summary) /\ ~isinstance_str(review.summary)
    THEN Raised("ReviewValidationError", "Review summary must be a string")
    ELSE Returned("")

\* ReviewListValidator.check_reviews_count on what get_reviews returned: a
\* ProviderReviewList object is truthy and has no len().
check_reviews_count(f) ==
    IF f.wrapped THEN Raised("TypeError", "object of type 'ProviderReviewList' has no len()")
    ELSE IF f.reviews = << >> THEN Raised("ReviewValidationError", "No reviews found")
    ELSE Returned("")

\* for review in reviews: check_review_fields(review), up to the first
\* review that is rejected.
RECURSIVE check_all_fields_from(_, _)
check_all_fields_from(rs, i) ==
    IF i > Len(rs) THEN Returned("")
    ELSE IF check_review_fields(rs[i]).exc # "" THEN check_review_fields(rs[i])
    ELSE check_all_fields_from(rs, i + 1)

HealthCheckResult(is_healthy, message, url, reviews_count) ==
    [is_healthy |-> is_healthy, message |-> message, url |-> url, reviews_count |-> reviews_count]

\* f"Error fetching reviews: {e!s}"
ErrorFetching(e) == << "Error fetching reviews: ", e >>

\* Variant of get_health_for_url: only the first review is validated.
get_health_for_url_first_review(fo, url) ==
    LET f == fo[url] IN
    IF f.exc # ""
    THEN Returned(HealthCheckResult(FALSE, ErrorFetching(f.exc), url, 0))
    ELSE IF check_reviews_count(f).exc = "ReviewValidationError"
    THEN Returned(HealthCheckResult(FALSE, << "No reviews found" >>, url, 0))
    ELSE IF check_reviews_count(f).exc # ""
    THEN check_reviews_count(f)
    ELSE IF check_review_fields(f.reviews[1]).exc # ""
    THEN Returned(HealthCheckResult(FALSE, << "Review validation failed" >>, url, 0))
    ELSE Returned(HealthCheckResult(TRUE, << "Successfully fetched reviews" >>, url, Len(f.reviews)))

\* _get_health_for_url(provider, url), get_reviews of the provider doing
\* fo[url]: only ReviewValidationError is caught around the validation.
get_health_for_url(fo, url) ==
    LET f == fo[url] IN
    IF f.exc # ""
    THEN Returned(HealthCheckResult(FALSE, ErrorFetching(f.exc), url, 0))
    ELSE IF check_reviews_count(f).exc = "ReviewValidationError"
    THEN Returned(HealthCheckResult(FALSE, << "No reviews found" >>, url, 0))
    ELSE IF check_reviews_count(f).exc # ""
    THEN check_reviews_count(f)
    ELSE IF check_all_fields_from(f.reviews, 1).exc # ""
    THEN Returned(HealthCheckResult(FALSE, << "Review validation failed" >>, url, 0))
    ELSE Returned(HealthCheckResult(TRUE, << "Successfully fetched reviews" >>, url, Len(f.reviews)))

\* The outcome of check_health and the number of get_reviews calls made.
Checked(r, calls) == [exc |-> r.exc, value |-> r.value, fetches |-> calls]

\* for url in self.test_urls: results.append(_get_health_for_url(self, url))
RECURSIVE check_health_from(_, _, _, _)
check_health_from(tu, fo, i, results) ==
    IF i > Len(tu) THEN Checked(Returned(results), Len(tu))
    ELSE IF get_health_for_url(fo, tu[i]).exc # ""
    THEN Checked(get_health_for_url(fo, tu[i]), i)
    ELSE check_health_from(tu, fo, i + 1, Append(results, get_health_for_url(fo, tu[i]).value))

\* Variant of check_health: an empty url counts as no url.
check_health_falsy_url(tu, fo, url) ==
    IF url # << >> /\ url[1] # << >>
    THEN IF get_health_for_url(fo, url[1]).exc # ""
         THEN Checked(get_health_for_url(fo, url[1]), 1)
         ELSE Checked(Returned(<< get_health_for_url(fo, url[1]).value >>), 1)
    ELSE IF tu = << >>
    THEN Checked(Returned(<< HealthCheckResult(FALSE, << "No test URLs configured" >>, << >>, 0) >>), 0)
    ELSE check_health_from(tu, fo, 1, << >>)

\* BaseReviewsProvider.check_health(url) of a provider whose test_urls is tu;
\* url is << >> for None and << u >> for the url u.
check_health(tu, fo, url) ==
    IF url # << >>
    THEN IF get_health_for_url(fo, url[1]).exc # ""
         THEN Checked(get_health_for_url(fo, url[1]), 1)
         ELSE Checked(Returned(<< get_health_for_url(fo, url[1]).value >>), 1)
    ELSE IF tu = << >>
    THEN Checked(Returned(<< HealthCheckResult(FALSE, << "No test URLs configured" >>, << >>, 0) >>), 0)
    ELSE check_health_from(tu, fo, 1, << >>)

\* The urls the provider under health check is asked for: "" and "x".
HealthUrls == { << >>, << "x" >> }

CheckHealth ==
    \E url \in { << >> } \cup { << u >> : u \in HealthUrls } :
        LET r == check_health(test_urls, fetch_of, url) IN
        /\ last' = [op |-> "check_health", arg |-> url, exc |-> r.exc, value |-> r.value,
                    fetches |-> r.fetches]
        /\ UNCHANGED <<eps, plugins_dir, providers, loadCalls, fresh, firstQueries, neverCleared,
                       site, gen, healthVars, harnessVars>>

\* A well-formed review, a review without rating and a review whose text is
\* a number.
ValidReview == Review(<< T1 >>, 5)
HealthReviews ==
    { ValidReview,
      ReviewOf(<< T1 >>, << >>, PyNone, PyNone, PyNone, PyNone),
      ReviewOf(<< T1 >>, << 5 >>, PyVal("int", "7"), PyNone, PyNone, PyNone) }

\* What get_reviews of the provider under health check may do.
HealthFetches ==
    { Fetch(e, << >>) : e \in {"ValueError", "InvalidURLError"} }
    \cup { Fetch("", rs) : rs \in BSeq(HealthReviews, MaxHealthReviews) }
    \cup { FetchWrapped(<< >>), FetchWrapped(<< ValidReview >>) }

\* ------------------------------------------------------------------------
\* Validation gates
\* ------------------------------------------------------------------------
\* The values a text field of a review may hold: None, strings, numbers and
\* lists, falsy and truthy.
TextVals ==
    { PyNone, PyVal("str", ""), PyVal("str", "s"), PyVal("int", "0"), PyVal("int", "7"),
      PyVal("list", "[]"), PyVal("list", "['x']") }

\* For cons and summary: None, a string, and a falsy and a truthy number.
FewTextVals == { PyNone, PyVal("str", "s"), PyVal("int", "0"), PyVal("int", "7") }

ValidatorReviews ==
    { ReviewOf(t, r, x, p, c, sm) :
        t \in { << >>, << T1 >> }, r \in { << >>, << 0 >>, << 5 >> },
        x \in TextVals, p \in TextVals, c \in FewTextVals, sm \in FewTextVals }

\* The steps of validation that _get_health_for_url runs on what get_reviews
\* returned: check_reviews_count, then check_review_fields on every review.
health_validation(f) ==
    IF check_reviews_count(f).exc # "" THEN check_reviews_count(f)
    ELSE check_all_fields_from(f.reviews, 1)

\* mock_utils.validate_reviews: the same steps, every exception turned into
\* (False, message).
validate_reviews(f) ==
    IF health_validation(f).exc # ""
    THEN Returned(<< FALSE, health_validation(f).value >>)
    ELSE Returned(<< TRUE, "" >>)

\* ResponseRecorder._validate_reviews: only created_at is looked at.  The
\* Boolean it returns is the one element of the value.
recorder_validate_reviews(f) ==
    IF ~f.wrapped /\ f.reviews = << >> THEN Returned(<< FALSE >>)
    ELSE IF f.wrapped THEN Raised("TypeError", "'ProviderReviewList' object is not iterable")
    ELSE Returned(<< \A i \in 1..Len(f.reviews) : f.reviews[i].created_at # << >> >>)

\* The collections handed to the gates.
GateReviews ==
    HealthReviews \cup { Review(<< >>, 5), Review(<< T1 >>, 0) }

GateCollections ==
    { Fetch("", rs) : rs \in BSeq(GateReviews, MaxHealthReviews) }
    \cup { FetchWrapped(<< ValidReview >>) }

\* One call of a function that reads no state, on a fresh process.
PureCall(op, arg, r) ==
    /\ last.op = "__init__"
    /\ last' = Outcome(op, arg, r)
    /\ UNCHANGED <<eps, plugins_dir, providers, loadCalls, fresh, firstQueries, neverCleared,
                   site, gen, healthVars, harnessVars>>

CheckReviewFields ==
    \E review \in ValidatorReviews :
        PureCall("check_review_fields", review, check_review_fields(review))

ValidateReviews ==
    \E f \in GateCollections : PureCall("validate_reviews", f, validate_reviews(f))

RecorderValidateReviews ==
    \E f \in GateCollections : PureCall("_validate_reviews", f, recorder_validate_reviews(f))

\* No provider is under health check.
NoHealth ==
    /\ test_urls = << >>
    /\ invalid_urls = << >>
    /\ provider_name = << "p" >>
    /\ fetch_of = [u \in HealthUrls |-> Fetch("", << >>)]

\* ------------------------------------------------------------------------
\* HTTP capture and replay
\* ------------------------------------------------------------------------
\* A call requests.get(url) or requests.post(url).
Request(method, url) == [method |-> method, url |-> url]

\* The headers a response may carry: Content-Type, Content-Encoding and a
\* header of the site's own that names the next page; "" when absent.
Headers(content_type, content_encoding, x_next) ==
    [content_type |-> content_type, content_encoding |-> content_encoding, x_next |-> x_next]

Response(status_code, text, headers) ==
    [status_code |-> status_code, text |-> text, headers |-> headers]

\* What get_reviews does on the network: the requests it makes, in order, and
\* whether it reads the headers of the responses or only status and body.
Program(requests, reads_headers) == [requests |-> requests, reads_headers |-> reads_headers]
NoProgram == Program(<< >>, FALSE)

\* The i-th request of the program is the n-th call of its method and url.
nth_call(prog, i) ==
    Cardinality({ j \in 1..i : prog.requests[j] = prog.requests[i] })

\* original_get(url) / original_post(url): the answer of the network.
live_response(prog, w, i) == w[prog.requests[i]][nth_call(prog, i)]

\* The review the provider makes of a response: of its status and body, and
\* of the header when it reads the headers.
observe(prog, response) ==
    ReviewOf(<< T1 >>, << response.status_code >>, PyVal("str", response.text), PyNone, PyNone,
             IF prog.reads_headers THEN PyVal("str", response.headers.x_next) ELSE PyNone)

\* capturing_get / capturing_post: the entry appended to captured_data, the
\* headers without Content-Encoding and Transfer-Encoding.
captured_entry(request, response) ==
    [method |-> request.method, url |-> request.url,
     headers |-> [response.headers EXCEPT !.content_encoding = ""],
     status_code |-> response.status_code, text |-> response.text]

\* with capture_http_requests() as captured_data: provider.get_reviews(url),
\* for a provider that returns what it observed.
capture_http_requests(prog, w) ==
    [captured_data |-> [i \in 1..Len(prog.requests) |->
                           captured_entry(prog.requests[i], live_response(prog, w, i))],
     returned |-> [i \in 1..Len(prog.requests) |-> observe(prog, live_response(prog, w, i))]]

\* rsps.add(method, mock_url, body=body, status=status_code): the registered
\* response has the method, url, body and status of the entry.
registered_response(captured) ==
    [method |-> captured.method, url |-> captured.url, body |-> captured.text,
     status |-> captured.status_code]

register_mock_responses(captured_data) ==
    [i \in 1..Len(captured_data) |-> registered_response(captured_data[i])]

\* The positions of the registered responses that match the request.
matches(registered, request) ==
    { i \in 1..Len(registered) :
        registered[i].method = request.method /\ registered[i].url = request.url }

remove_at(seq, k) == [i \in 1..(Len(seq) - 1) |-> IF i < k THEN seq[i] ELSE seq[i + 1]]

\* The response a registered stub gives: its status and body, and the
\* headers of the mock, which are not those of the captured response.
stub_response(stub) ==
    Response(stub.status, stub.body, Headers("text/plain", "", ""))

\* get_reviews under the RequestsMock: each request is answered by the first
\* registered response that matches it, which is removed when another one
\* matches too; a request that nothing matches fails with ConnectionError.
RECURSIVE replay_from(_, _, _, _)
replay_from(prog, registered, i, returned) ==
    IF i > Len(prog.requests) THEN Returned(returned)
    ELSE LET ms == matches(registered, prog.requests[i]) IN
         IF ms = { } THEN Raised("ConnectionError", "Connection refused by Responses")
         ELSE LET k == CHOOSE m \in ms : \A n \in ms : m <= n IN
              replay_from(prog,
                          IF Cardinality(ms) > 1 THEN remove_at(registered, k) ELSE registered,
                          i + 1,
                          Append(returned, observe(prog, stub_response(registered[k]))))

replay(prog, captured_data) ==
    replay_from(prog, register_mock_responses(captured_data), 1, << >>)

\* ------------------------------------------------------------------------
\* The patch of the HTTP client
\* ------------------------------------------------------------------------
\* A function requests.get or requests.post can be bound to: the function of
\* the library (ctx 0), or capturing_get / capturing_post of the capture
\* context entered ctx-th.
Fn(kind, ctx) == [kind |-> kind, ctx |-> ctx]

LibraryClient == [get |-> Fn("get", 0), post |-> Fn("post", 0)]

\* Nothing is patched and no capture context has been entered.
NoPatch ==
    /\ client = LibraryClient
    /\ contexts = << >>

\* The response of the network to the calls of the model, which all ask for
\* the same page.
PatchedPage == Response(200, "p1", Headers("application/json", "gzip", ""))

\* A call fn(url): the function of the library answers from the network, a
\* capturing function calls the original it has saved and appends the
\* exchange to the captured_data of its context.
RECURSIVE invoke(_, _, _)
invoke(fn, cs, request) ==
    IF fn.ctx = 0 THEN [response |-> PatchedPage, contexts |-> cs]
    ELSE LET inner == invoke(IF fn.kind = "get" THEN cs[fn.ctx].original_get
                                                 ELSE cs[fn.ctx].original_post,
                             cs, request)
         IN  [response |-> inner.response,
              contexts |-> [inner.contexts EXCEPT ![fn.ctx].captured_data =
                               Append(@, captured_entry(request, inner.response))]]

\* __enter__ of capture_http_requests(): the originals are saved and the
\* capturing functions take their place.
capture_enter(cl, cs) ==
    [client |-> [get |-> Fn("get", Len(cs) + 1), post |-> Fn("post", Len(cs) + 1)],
     contexts |-> Append(cs, [original_get |-> cl.get, original_post |-> cl.post,
                              captured_data |-> << >>, exit |-> ""])]

\* Variant of capture_exit: the originals are restored only when the body
\* has not raised.
capture_exit_no_finally(cl, cs, id, raised) ==
    [client |-> IF raised THEN cl
                ELSE [get |-> cs[id].original_get, post |-> cs[id].original_post],
     contexts |-> [cs EXCEPT ![id].exit = IF raised THEN "raised" ELSE "normal"]]

\* __exit__ of the context entered id-th: the finally clause restores the
\* originals whether the body has raised or not.
capture_exit(cl, cs, id, raised) ==
    [client |-> [get |-> cs[id].original_get, post |-> cs[id].original_post],
     contexts |-> [cs EXCEPT ![id].exit = IF raised THEN "raised" ELSE "normal"]]

\* The contexts that are open, and the one entered last among them.
open_contexts(cs) == { id \in 1..Len(cs) : cs[id].exit = "" }
innermost(cs) == CHOOSE id \in open_contexts(cs) : \A other \in open_contexts(cs) : other <= id

\* ------------------------------------------------------------------------
\* Mock files
\* ------------------------------------------------------------------------
\* Names and paths are sequences of characters; a run of characters without
\* "_" and "." may stand as one element.
\* get_mock_file: <name>_<url_index>_0 or <name>_invalid_<url_index>_0, the
\* path without extension.
get_mock_file(name, url_index, url_type) ==
    name \o << "_" >>
         \o (IF url_type = "invalid" THEN << "invalid", "_" >> ELSE << >>)
         \o << ToString(url_index), "_", "0" >>

\* path.with_suffix(ext): what follows the last "." of the path, the "."
\* included, is replaced by ext; without a "." ext is added.
with_suffix(path, ext) ==
    IF \E i \in 1..Len(path) : path[i] = "."
    THEN SubSeq(path, 1, (CHOOSE i \in 1..Len(path) :
                            /\ path[i] = "."
                            /\ \A j \in (i + 1)..Len(path) : path[j] # ".") - 1) \o << ext >>
    ELSE path \o << ext >>

\* The file the storage reads and writes for a url of the provider under
\* test: the YAML storage puts its extension on the path of get_mock_file.
MockKey(url_type, url_index) ==
    with_suffix(get_mock_file(provider_name, url_index, url_type), ".yaml")

\* Review.to_representation: created_at.isoformat(), which a created_at of
\* None does not have.
to_representation(review) ==
    IF review.created_at = << >>
    THEN Raised("AttributeError", "'NoneType' object has no attribute 'isoformat'")
    ELSE Returned([review EXCEPT !.created_at = isoformat(review.created_at[1])])

\* save_mock_response(provider_class, url_index, url, reviews, captured_data,
\* url_type) on the mock files m: the files afterwards, or the exception.
save_mock_response(m, url_index, url, f, captured_data, url_type) ==
    IF f.wrapped THEN Raised("TypeError", "'ProviderReviewList' object is not iterable")
    ELSE IF \E i \in 1..Len(f.reviews) : to_representation(f.reviews[i]).exc # ""
    THEN Raised("AttributeError", "'NoneType' object has no attribute 'isoformat'")
    ELSE Returned(dict_set(m, MockKey(url_type, url_index),
                           [url |-> url,
                            reviews |-> [i \in 1..Len(f.reviews) |->
                                            to_representation(f.reviews[i]).value],
                            captured_data |-> captured_data]))

\* load_mock_data: << >> for None when the file does not exist.
load_mock_data(m, url_index, url_type) ==
    IF dict_has(m, MockKey(url_type, url_index))
    THEN << dict_get(m, MockKey(url_type, url_index)) >>
    ELSE << >>

\* No mock file and no cached response exists, and no provider is under test.
NoHarness ==
    /\ program = [u \in HealthUrls |-> NoProgram]
    /\ web = << >>
    /\ mocks = << >>
    /\ cache = << >>
    /\ live = << >>
    /\ NoPatch

\* ------------------------------------------------------------------------
\* Specifications of the registry and of dispatch
\* ------------------------------------------------------------------------
Constructed ==
    /\ providers = Unloaded
    /\ loadCalls = 0
    /\ fresh = TRUE
    /\ firstQueries = 0
    /\ neverCleared = TRUE
    /\ last = Outcome("__init__", << >>, Returned(<< >>))
    /\ gen = NoGenerator

Init ==
    /\ site = Fetch("", << >>)
    /\ eps \in BSeq(CoreEntryPoints, MaxEps)
    /\ plugins_dir \in {NoDir} \cup { PluginsDir(TRUE, s) : s \in BSeq(CoreFsEntries, MaxFs) }
    /\ Constructed
    /\ NoHealth
    /\ NoHarness

\* The registry under its queries and clear_cache.
Next ==
    \/ GetProviderForUrl
    \/ ListProviders
    \/ GetProviderClass
    \/ GetProviderNames
    \/ GetProvider
    \/ ClearCache

Spec == Init /\ [][Next]_vars

\* The registry under its queries, clear_cache and a generator of
\* iter_providers that is consumed between them.
IterPluginsDirs ==
    { NoDir,
      PluginsDir(TRUE, << FsPlugin(<< Attr("BaseReviewsProvider", BaseObj),
                                      Attr("provider", ProviderObj("a", RegexXY)) >>) >>) }

InitIter ==
    /\ site = Fetch("", << >>)
    /\ eps \in BSeq(CoreEntryPoints, MaxEps)
    /\ plugins_dir \in IterPluginsDirs
    /\ Constructed
    /\ NoHealth
    /\ NoHarness

NextIter ==
    \/ Next
    \/ IterProviders
    \/ GeneratorStart
    \/ GeneratorNext

SpecIter == InitIter /\ [][NextIter]_vars

\* Dispatch: a registry of a few well-formed and malformed plugins, and a
\* source that answers get_reviews in one of the ways of Fetches.
DispatchEntryPoints ==
    { EpObj(NamelessProviderObj), EpObj(ProviderObj("a", RegexX)), EpObj(ProviderObj("b", RegexXY)) }

DispatchPluginsDirs ==
    { NoDir,
      PluginsDir(TRUE, << FsPlugin(<< Attr("BaseReviewsProvider", BaseObj),
                                      Attr("provider", ProviderObj("a", RegexXY)) >>) >>) }

InitDispatch ==
    /\ site \in Fetches
    /\ eps \in BSeq(DispatchEntryPoints, MaxEps)
    /\ plugins_dir \in DispatchPluginsDirs
    /\ Constructed
    /\ NoHealth
    /\ NoHarness

NextDispatch == ParseReviews

SpecDispatch == InitDispatch /\ [][NextDispatch]_vars

\* ------------------------------------------------------------------------
\* Discovery on its own
\* ------------------------------------------------------------------------
LoaderCall(op, r) ==
    /\ last.op = "__init__"
    /\ last' = Outcome(op, << >>, r)
    /\ UNCHANGED <<eps, plugins_dir, providers, loadCalls, fresh, firstQueries, neverCleared, site,
                   gen, healthVars, harnessVars>>

LoadEntryPointProviders ==
    LoaderCall("load_entry_point_providers", Returned(load_entry_point_providers(eps)))

LoadFsProviders ==
    LoaderCall("load_fs_providers", Returned(load_fs_providers(plugins_dir)))

LoadAllProvidersMap ==
    LET r == load_all_providers_map(eps, plugins_dir) IN
    LoaderCall("load_all_providers_map", Raised(r.exc, r.map))

InitDiscovery ==
    /\ site = Fetch("", << >>)
    /\ eps \in BSeq(EntryPoints, MaxEps)
    /\ plugins_dir \in {NoDir} \cup { PluginsDir(TRUE, s) : s \in BSeq(FsEntries, MaxFs) }
    /\ Constructed
    /\ NoHealth
    /\ NoHarness

NextDiscovery ==
    \/ LoadEntryPointProviders
    \/ LoadFsProviders
    \/ LoadAllProvidersMap

SpecDiscovery == InitDiscovery /\ [][NextDiscovery]_vars

\* ------------------------------------------------------------------------
\* Resolution of the provider class of one plugin
\* ------------------------------------------------------------------------
\* What a plugin module may bind under each attribute name, in the order of
\* dir(module); None stands for a name the module does not bind, or binds
\* to None.
ModuleBindings ==
    << [attr |-> "AProvider", objs |-> {None, ProviderObj("a", RegexX)}],
       [attr |-> "BaseReviewsProvider", objs |-> {None, BaseObj}],
       [attr |-> "ComProvider", objs |-> {None, ProviderObj("com", RegexX), NotAClassObj}],
       [attr |-> "ShopProvider", objs |-> {None, ProviderObj("shop", RegexX), NotAClassObj}],
       [attr |-> "provider",
        objs |-> {None, ProviderObj("p", RegexX), NotAClassObj, PlainClassObj}] >>

\* The attributes of the module that binds ModuleBindings[i].attr to
\* choice[i].
module_attrs(choice) ==
    LET bound(a) == a.obj # None IN
    SelectSeq([i \in 1..Len(ModuleBindings) |-> Attr(ModuleBindings[i].attr, choice[i])], bound)

\* Plugins called "shop" and "shop.com".
ResolvePlugins ==
    { FsDir(name, TRUE, FALSE, TRUE, TRUE, module_attrs(choice)) :
        name \in { << "shop" >>, << "shop", "com" >> },
        choice \in { c \in [1..Len(ModuleBindings) -> UNION { ModuleBindings[i].objs : i \in 1..Len(ModuleBindings) }] :
                        \A i \in 1..Len(ModuleBindings) : c[i] \in ModuleBindings[i].objs } }

LoadFsProvider ==
    \E i \in 1..Len(plugins_dir.entries) :
        PureCall("load_fs_provider", i, Returned(load_fs_provider(plugins_dir.entries[i])))

InitResolve ==
    /\ site = Fetch("", << >>)
    /\ eps = << >>
    /\ plugins_dir \in { PluginsDir(TRUE, << d >>) : d \in ResolvePlugins }
    /\ Constructed
    /\ NoHealth
    /\ NoHarness

NextResolve == LoadFsProvider

SpecResolve == InitResolve /\ [][NextResolve]_vars

\* ------------------------------------------------------------------------
\* Health check of one provider
\* ------------------------------------------------------------------------
NoRegistry ==
    /\ eps = << >>
    /\ plugins_dir = NoDir
    /\ site = Fetch("", << >>)
    /\ Constructed

InitHealth ==
    /\ NoRegistry
    /\ test_urls \in BSeq(HealthUrls, MaxTestUrls)
    /\ invalid_urls = << >>
    /\ provider_name = << "p" >>
    /\ fetch_of \in [HealthUrls -> HealthFetches]
    /\ NoHarness

NextHealth == CheckHealth

SpecHealth == InitHealth /\ [][NextHealth]_vars

\* ------------------------------------------------------------------------
\* The validator and the gates on their own
\* ------------------------------------------------------------------------
InitValidator ==
    /\ NoRegistry
    /\ NoHealth
    /\ NoHarness

NextValidator ==
    \/ CheckReviewFields
    \/ ValidateReviews
    \/ RecorderValidateReviews

SpecValidator == InitValidator /\ [][NextValidator]_vars

\* ------------------------------------------------------------------------
\* The test command and the response recorder
\* ------------------------------------------------------------------------
\* What a step of the harness did: the exception that escaped it or the
\* (success, message) it returned, whether it ran the provider in replay or
\* in a recording pass, whether it wrote a record, and the records afterwards.
StepDone(r, mode, saved, records) ==
    [exc |-> r.exc, value |-> r.value, mode |-> mode, saved |-> saved, records |-> records]

\* The record is replayed only when it has captured exchanges.
replays(mock_data) == mock_data # << >> /\ mock_data[1].captured_data # << >>

\* _test_test_url(provider_class, provider, url, url_index, re_record), with
\* the mock files m, the outcome f of get_reviews(url) and the exchanges a
\* live run of it makes.
test_test_url(m, url, url_index, re_record, f, captured_data) ==
    LET mock_data == IF re_record THEN << >> ELSE load_mock_data(m, url_index, "valid")
        mode == IF replays(mock_data) THEN "replay" ELSE "record"
        checked == validate_reviews(f).value
    IN  IF f.exc # "" THEN StepDone(Returned(<< FALSE, "Failed to fetch reviews" >>), mode, FALSE, m)
        ELSE IF replays(mock_data) THEN StepDone(Returned(checked), mode, FALSE, m)
        ELSE LET written == save_mock_response(m, url_index, url, f, captured_data, "valid") IN
             IF written.exc # "" THEN StepDone(written, mode, FALSE, m)
             ELSE StepDone(Returned(checked), mode, TRUE, written.value)

\* _test_invalid_url(provider_class, provider, url, url_index, re_record):
\* only ReviewsParseException counts as the expected failure.
test_invalid_url(m, url, url_index, re_record, f, captured_data) ==
    LET mock_data == IF re_record THEN << >> ELSE load_mock_data(m, url_index, "invalid")
        mode == IF replays(mock_data) THEN "replay" ELSE "record"
        written == save_mock_response(m, url_index, url, Fetch("", << >>), captured_data, "invalid")
    IN  IF f.exc # "" /\ f.exc # "ReviewsParseException"
        THEN StepDone(Returned(<< FALSE, "Invalid URL raised wrong exception" >>), mode, FALSE, m)
        ELSE IF replays(mock_data)
        THEN IF f.exc = "ReviewsParseException"
             THEN StepDone(Returned(<< TRUE, "Invalid URL test PASS" >>), mode, FALSE, m)
             ELSE StepDone(Returned(<< FALSE, "Invalid URL should raise" >>), mode, FALSE, m)
        ELSE IF f.exc = "ReviewsParseException"
             THEN StepDone(Returned(<< TRUE, "Invalid URL test PASS" >>), mode, TRUE, written.value)
             ELSE StepDone(Returned(<< FALSE, "Invalid URL should raise" >>), mode, TRUE, written.value)

\* ResponseCache: one entry per provider and test case.
CacheKey(provider, test_case) == << provider, test_case >>

\* ResponseRecorder._record_test_url(provider, url, test_case) on the cache
\* c, provider being the name of the provider class; fetched tells whether
\* _fetch_response got the raw response.
record_test_url(c, provider, url, test_case, f, fetched) ==
    IF f.exc # "" THEN StepDone(Returned(<< FALSE, "get_reviews raised" >>), "record", FALSE, c)
    ELSE IF ~f.wrapped /\ f.reviews = << >>
    THEN StepDone(Returned(<< FALSE, "No reviews found" >>), "record", FALSE, c)
    ELSE IF recorder_validate_reviews(f).exc # ""
    THEN StepDone(Returned(<< FALSE, recorder_validate_reviews(f).value >>), "record", FALSE, c)
    ELSE IF ~recorder_validate_reviews(f).value[1]
    THEN StepDone(Returned(<< FALSE, "Reviews validation failed" >>), "record", FALSE, c)
    ELSE IF ~fetched
    THEN StepDone(Returned(<< FALSE, "Could not fetch raw response" >>), "record", FALSE, c)
    ELSE StepDone(Returned(<< TRUE, "" >>), "record", TRUE,
                  dict_set(c, CacheKey(provider, test_case),
                           [url |-> url, is_valid |-> TRUE, reviews_count |-> Len(f.reviews)]))

\* What a step leaves in last: its call, its result, and whether a record
\* existed for its key before it.
StepOutcome(op, url, url_index, re_record, had_record, d) ==
    [op |-> op, arg |-> [url |-> url, url_index |-> url_index, re_record |-> re_record],
     exc |-> d.exc, value |-> d.value, mode |-> d.mode, had_record |-> had_record,
     saved |-> d.saved]

captured_of(url) == capture_http_requests(program[url], web).captured_data

TestTestUrl ==
    \E i \in 1..Len(test_urls), re_record \in BOOLEAN :
        LET d == test_test_url(mocks, test_urls[i], i - 1, re_record, fetch_of[test_urls[i]],
                               captured_of(test_urls[i]))
        IN  /\ mocks' = d.records
            /\ last' = StepOutcome("_test_test_url", test_urls[i], i - 1, re_record,
                                   dict_has(mocks, MockKey("valid", i - 1)), d)
            /\ UNCHANGED <<eps, plugins_dir, providers, loadCalls, fresh, firstQueries,
                           neverCleared, site, gen, healthVars, patchVars, program, web, cache, live>>

TestInvalidUrl ==
    \E i \in 1..Len(invalid_urls), re_record \in BOOLEAN :
        LET d == test_invalid_url(mocks, invalid_urls[i], i - 1, re_record,
                                  fetch_of[invalid_urls[i]], captured_of(invalid_urls[i]))
        IN  /\ mocks' = d.records
            /\ last' = StepOutcome("_test_invalid_url", invalid_urls[i], i - 1, re_record,
                                   dict_has(mocks, MockKey("invalid", i - 1)), d)
            /\ UNCHANGED <<eps, plugins_dir, providers, loadCalls, fresh, firstQueries,
                           neverCleared, site, gen, healthVars, patchVars, program, web, cache, live>>

RecordTestUrl ==
    \E i \in 1..Len(test_urls), fetched \in BOOLEAN :
        LET d == record_test_url(cache, provider_name, test_urls[i], << "test_url", i - 1 >>,
                                 fetch_of[test_urls[i]], fetched)
        IN  /\ cache' = d.records
            /\ last' = StepOutcome("_record_test_url", test_urls[i], i - 1, FALSE,
                                   dict_has(cache, CacheKey(provider_name, << "test_url", i - 1 >>)), d)
            /\ UNCHANGED <<eps, plugins_dir, providers, loadCalls, fresh, firstQueries,
                       neverCleared, site, gen, healthVars, patchVars, program, web, mocks, live>>

\* mocks_dir.glob(f"{name}_*.yaml") and the same with .json: the files that
\* begin with the name and "_" and end with the extension.
glob_matches(name, file) ==
    /\ Len(file) >= Len(name) + 2
    /\ SubSeq(file, 1, Len(name) + 1) = name \o << "_" >>
    /\ file[Len(file)] \in {".yaml", ".json"}

\* clear_provider_mocks(provider_class) on the files m: the number of files
\* deleted, and the files left.
clear_provider_mocks(m, name) ==
    LET kept(item) == ~glob_matches(name, item.key) IN
    [count |-> Len(m) - Len(SelectSeq(m, kept)), records |-> SelectSeq(m, kept)]

\* The steps of a run: the test urls, then the invalid urls.
StepsOf(tu, iu) ==
    [i \in 1..(Len(tu) + Len(iu)) |->
        IF i <= Len(tu)
        THEN [url_type |-> "valid", url |-> tu[i], url_index |-> i - 1]
        ELSE [url_type |-> "invalid", url |-> iu[i - Len(tu)], url_index |-> i - Len(tu) - 1]]

\* What a run did: the exception that escaped it or its result, the records
\* afterwards, and for each step taken its file, whether it wrote it and with
\* what, and whether it succeeded.
RunDone(r, records, steps) ==
    [exc |-> r.exc, value |-> r.value, records |-> records, steps |-> steps]

StepTaken(key, saved, written, ok) ==
    [key |-> key, saved |-> saved, written |-> written, ok |-> ok]

\* The loops of run_single_provider_test from the i-th step on.
RECURSIVE run_steps_from(_, _, _, _, _, _, _)
run_steps_from(m, todo, i, re_record, fo, success, steps) ==
    IF i > Len(todo) THEN RunDone(Returned(<< success >>), m, steps)
    ELSE LET t == todo[i]
             d == IF t.url_type = "valid"
                  THEN test_test_url(m, t.url, t.url_index, re_record, fo[t.url],
                                     captured_of(t.url))
                  ELSE test_invalid_url(m, t.url, t.url_index, re_record, fo[t.url],
                                        captured_of(t.url))
             key == MockKey(t.url_type, t.url_index)
             taken == StepTaken(key, d.saved,
                                IF d.saved THEN << dict_get(d.records, key) >> ELSE << >>,
                                d.exc = "" /\ d.value[1])
         IN  IF d.exc # "" THEN RunDone(d, m, Append(steps, taken))
             ELSE run_steps_from(d.records, todo, i + 1, re_record, fo,
                                 success /\ d.value[1], Append(steps, taken))

\* Variant of run_single_provider_test: a failed run puts the files back as
\* they were.
run_single_provider_test_atomic(m, tu, iu, re_record, fo) ==
    LET r == run_steps_from(IF re_record THEN clear_provider_mocks(m, provider_name).records ELSE m,
                            StepsOf(tu, iu), 1, re_record, fo, TRUE, << >>)
    IN  IF r.exc = "" /\ r.value[1] THEN r ELSE [r EXCEPT !.records = m]

\* run_single_provider_test(provider_class, re_record) on the files m.
run_single_provider_test(m, tu, iu, re_record, fo) ==
    IF tu = << >> /\ iu = << >> THEN RunDone(Returned(<< TRUE >>), m, << >>)
    ELSE run_steps_from(IF re_record THEN clear_provider_mocks(m, provider_name).records ELSE m,
                        StepsOf(tu, iu), 1, re_record, fo, TRUE, << >>)

\* What a run leaves in last: its call, its result, the steps it took, and
\* the records that existed before it.
RunOutcome(op, re_record, before, r) ==
    [op |-> op, arg |-> [re_record |-> re_record], exc |-> r.exc, value |-> r.value,
     steps |-> r.steps, before |-> before]

RunSingleProviderTest ==
    \E re_record \in BOOLEAN :
        /\ last.op = "__init__"
        /\ LET r == run_single_provider_test(mocks, test_urls, invalid_urls, re_record, fetch_of)
           IN  /\ mocks' = r.records
               /\ last' = RunOutcome("run_single_provider_test", re_record, mocks, r)
        /\ UNCHANGED <<eps, plugins_dir, providers, loadCalls, fresh, firstQueries,
                       neverCleared, site, gen, healthVars, patchVars, program, web, cache, live>>

\* ResponseCache.clear_provider(provider): the directory of the provider is
\* removed with all its test cases.
clear_provider(c, provider) ==
    LET kept(item) == item.key[1] # provider IN SelectSeq(c, kept)

\* The loop of record_provider over the test urls from the i-th on.
RECURSIVE record_urls_from(_, _, _, _, _, _, _, _)
record_urls_from(c, provider, tu, i, fo, fetched, failed, steps) ==
    IF i > Len(tu) THEN RunDone(Returned(<< failed = 0 >>), c, steps)
    ELSE LET test_case == << "test_url", i - 1 >>
             d == record_test_url(c, provider, tu[i], test_case, fo[tu[i]], fetched[i])
             key == CacheKey(provider, test_case)
             taken == StepTaken(key, d.saved,
                                IF d.saved THEN << dict_get(d.records, key) >> ELSE << >>,
                                d.value[1])
         IN  record_urls_from(d.records, provider, tu, i + 1, fo, fetched,
                              IF d.value[1] THEN failed ELSE failed + 1, Append(steps, taken))

\* ResponseRecorder.record_provider(provider_class, re_record) on the cache
\* c, provider being provider_class.name: the result tells whether the list
\* of failed recordings is empty.  The provider classes have no
\* test_invalid_urls, so that loop records nothing.
record_provider(c, provider, tu, re_record, fo, fetched) ==
    record_urls_from(IF re_record THEN clear_provider(c, provider) ELSE c, provider, tu, 1, fo,
                     fetched, 0, << >>)

RecordProvider ==
    \E re_record \in BOOLEAN, fetched \in [1..Len(test_urls) -> BOOLEAN] :
        /\ last.op = "__init__"
        /\ LET r == record_provider(cache, provider_name, test_urls, re_record, fetch_of, fetched)
           IN  /\ cache' = r.records
               /\ last' = RunOutcome("record_provider", re_record, cache, r)
        /\ UNCHANGED <<eps, plugins_dir, providers, loadCalls, fresh, firstQueries,
                       neverCleared, site, gen, healthVars, patchVars, program, web, mocks, live>>

\* The providers put under test: what get_reviews gives for a url, and the
\* requests it makes for it.
NullRatingReview == ReviewOf(<< T1 >>, << >>, PyNone, PyNone, PyNone, PyNone)
NoDateReview == Review(<< >>, 5)

HarnessFetches ==
    { Fetch("InvalidURLError", << >>), Fetch("ReviewsParseException", << >>),
      Fetch("ValueError", << >>),
      Fetch("", << >>), Fetch("", << ValidReview >>), Fetch("", << NullRatingReview >>),
      Fetch("", << NoDateReview >>), FetchWrapped(<< ValidReview >>) }

PageUrl == "http://h/reviews"
PlainPage(text) == Response(200, text, Headers("application/json", "gzip", ""))

HarnessPrograms == { NoProgram, Program(<< Request("GET", PageUrl) >>, FALSE) }

HarnessWeb == [r \in { Request("GET", PageUrl) } |-> << PlainPage("p1") >>]

OneUrl == { << u >> : u \in HealthUrls }

\* The test urls of the providers put under test: one url or more.
TestUrlLists == BSeq(HealthUrls, MaxTestUrls) \ { << >> }

\* The names of the providers put under test: "p" and "s.c".
HarnessNames == { << "p" >>, << "s", ".", "c" >> }

InitHarness ==
    /\ NoRegistry
    /\ test_urls \in OneUrl
    /\ invalid_urls \in OneUrl
    /\ provider_name \in HarnessNames
    /\ fetch_of \in [HealthUrls -> HarnessFetches]
    /\ program \in [HealthUrls -> HarnessPrograms]
    /\ web = HarnessWeb
    /\ mocks = << >>
    /\ cache = << >>
    /\ live = << >>
    /\ NoPatch

NextHarness ==
    \/ TestTestUrl
    \/ TestInvalidUrl
    \/ RecordTestUrl

SpecHarness == InitHarness /\ [][NextHarness]_vars

\* ------------------------------------------------------------------------
\* Capture contexts entered, used and left
\* ------------------------------------------------------------------------
PatchStep(op, arg, r, cl, cs) ==
    /\ client' = cl
    /\ contexts' = cs
    /\ last' = Outcome(op, arg, r)
    /\ UNCHANGED <<eps, plugins_dir, providers, loadCalls, fresh, firstQueries, neverCleared,
                   site, gen, healthVars, program, web, mocks, cache, live>>

EnterCapture ==
    /\ Len(contexts) < MaxCaptures
    /\ LET r == capture_enter(client, contexts) IN
       PatchStep("capture_http_requests.__enter__", Len(contexts) + 1, Returned(<< >>),
                 r.client, r.contexts)

\* The contexts are left innermost first, by the end of the body or by an
\* exception raised in it, which goes on to the caller.
ExitCapture ==
    /\ open_contexts(contexts) # { }
    /\ \E raised \in BOOLEAN :
           LET id == innermost(contexts)
               r == capture_exit(client, contexts, id, raised)
           IN  PatchStep("capture_http_requests.__exit__", id,
                         IF raised THEN Raised("ValueError", << >>) ELSE Returned(<< >>),
                         r.client, r.contexts)

\* requests.get(url) or requests.post(url), through whatever the name is
\* bound to at the time of the call.
RequestsCall ==
    \E method \in {"GET", "POST"} :
        LET r == invoke(IF method = "GET" THEN client.get ELSE client.post, contexts,
                        Request(method, PageUrl))
        IN  /\ \A id \in 1..Len(contexts) : Len(r.contexts[id].captured_data) <= MaxRequests
            /\ PatchStep("requests." \o method, PageUrl, Returned(r.response), client, r.contexts)

InitCapture ==
    /\ NoRegistry
    /\ NoHealth
    /\ NoHarness

NextCapture ==
    \/ EnterCapture
    \/ ExitCapture
    \/ RequestsCall

SpecCapture == InitCapture /\ [][NextCapture]_vars

\* ------------------------------------------------------------------------
\* Whole runs of the test command and of the recorder
\* ------------------------------------------------------------------------
\* The file get_mock_file and save_mock give for a record of the provider
\* called name.
mock_file_of(name, url_type, url_index) ==
    with_suffix(get_mock_file(name, url_index, url_type), ".yaml")

\* The file is one that the harness writes for the provider called name.
is_record_of(name, file) ==
    \E url_type \in {"valid", "invalid"}, url_index \in 0..(MaxTestUrls - 1) :
        file = mock_file_of(name, url_type, url_index)

\* The providers whose records share the mocks directory with the provider
\* under test: one whose name continues its name after "_", and another.
Neighbour(name) == name \o << "_", "x" >>
Stranger == << "q" >>

\* A record left by an earlier session.
EarlierRecord(captured_data) ==
    [url |-> << "x" >>, reviews |-> << to_representation(ValidReview).value >>,
     captured_data |-> captured_data]

\* The mocks directory before a run: with or without a record of the
\* provider under test, with or without records of the other providers.
RunDirs(name, captured_data) ==
    LET own == dict_set(<< >>, mock_file_of(name, "valid", 0), EarlierRecord(captured_data))
        with_others(m) ==
            dict_set(dict_set(m, mock_file_of(Neighbour(name), "valid", 0), EarlierRecord(<< >>)),
                     mock_file_of(Stranger, "valid", 0), EarlierRecord(<< >>))
    IN  { << >>, own, with_others(<< >>), with_others(own) }

\* The response cache before a run: empty, or with a response recorded for
\* the provider under test and one recorded for another provider.
RunCaches(name) ==
    LET entry == [url |-> << "x" >>, is_valid |-> TRUE, reviews_count |-> 1]
    IN  { << >>,
          dict_set(dict_set(<< >>, CacheKey(name, << "test_url", MaxTestUrls >>), entry),
                   CacheKey(Stranger, << "test_url", 0 >>), entry) }

ClearProviderMocks ==
    /\ last.op = "__init__"
    /\ LET r == clear_provider_mocks(mocks, provider_name)
       IN  /\ mocks' = r.records
           /\ last' = [op |-> "clear_provider_mocks", arg |-> provider_name, exc |-> "",
                       value |-> << r.count >>, before |-> mocks]
    /\ UNCHANGED <<eps, plugins_dir, providers, loadCalls, fresh, firstQueries,
                   neverCleared, site, gen, healthVars, patchVars, program, web, cache, live>>

RunPrograms == { [u \in HealthUrls |-> pr] : pr \in HarnessPrograms }

InitRun ==
    /\ NoRegistry
    /\ test_urls \in BSeq(HealthUrls, MaxTestUrls)
    /\ invalid_urls \in { << >> } \cup OneUrl
    /\ provider_name \in HarnessNames
    /\ fetch_of \in [HealthUrls -> HarnessFetches]
    /\ program \in RunPrograms
    /\ web = HarnessWeb
    /\ mocks \in RunDirs(provider_name, captured_of(<< "x" >>))
    /\ cache \in RunCaches(provider_name)
    /\ live = << >>
    /\ NoPatch

NextRun ==
    \/ RunSingleProviderTest
    \/ RecordProvider
    \/ ClearProviderMocks

SpecRun == InitRun /\ [][NextRun]_vars

\* ------------------------------------------------------------------------
\* The default registry and the providers of the package
\* ------------------------------------------------------------------------
\* providers/providers/dummy: provider.py imports ReviewList from the models,
\* which do not define it, so the import of the module fails.
DummyPlugin == FsDir(<< "dummy" >>, TRUE, FALSE, TRUE, FALSE, << >>)

\* providers/providers/jsonfs: the class, and the binding provider to it.
JsonFsPlugin ==
    FsDir(<< "jsonfs" >>, TRUE, FALSE, TRUE, TRUE,
          << Attr("BaseReviewsProvider", BaseObj),
             Attr("JsonFsReviewsProvider", ProviderObj("JSON FS", RegexX)),
             Attr("provider", ProviderObj("JSON FS", RegexX)) >>)

\* get_local_providers_dir(): PROVIDERS_DIR as it is shipped.
get_local_providers_dir == PluginsDir(TRUE, << DummyPlugin, JsonFsPlugin >>)

\* get_plugins_dir(): << >> for None when the variable is unset or empty,
\* << d >> for the directory d it names.
get_plugins_dir(env) == env

\* load_fs_providers(providers_dir): the directory of the package is
\* scanned only when providers_dir is None.
load_fs_providers_of(providers_dir) ==
    IF providers_dir = << >>
    THEN load_fs_providers(get_local_providers_dir)
    ELSE load_fs_providers(providers_dir[1])

\* get_default_registry().get_provider_names() with PRODUCT_REVIEWS_PLUGINS_DIR
\* as env and the entry points es.
default_registry_names(es, env) ==
    LET cs == load_entry_point_providers(es) \o load_fs_providers_of(get_plugins_dir(env)) IN
    IF \E i \in 1..Len(cs) : cs[i].name = NoName
    THEN Raised("AttributeError", << >>)
    ELSE get_provider_names(build_map(cs, 1, << >>))

DefaultRegistryNames ==
    \E configured \in BOOLEAN :
        LET env == IF configured THEN << plugins_dir >> ELSE << >> IN
        PureCall("get_default_registry", env, default_registry_names(eps, env))

InitPlugins ==
    /\ site = Fetch("", << >>)
    /\ eps \in BSeq(CoreEntryPoints, MaxEps)
    /\ plugins_dir \in {NoDir} \cup { PluginsDir(TRUE, s) : s \in BSeq(CoreFsEntries, MaxFs) }
    /\ Constructed
    /\ NoHealth
    /\ NoHarness

NextPlugins == DefaultRegistryNames

SpecPlugins == InitPlugins /\ [][NextPlugins]_vars

\* ------------------------------------------------------------------------
\* The representation of a review
\* ------------------------------------------------------------------------
\* Review.from_representation(r): created_at parsed back, the other entries
\* as they are.
from_representation(r) ==
    Returned([r EXCEPT !.created_at = << fromisoformat(r.created_at) >>])

\* a == b of two reviews, as the dataclass compares them: field by field.
review_eq(a, b) ==
    /\ a.rating = b.rating
    /\ datetime_eq(a.created_at[1], b.created_at[1])
    /\ a.text = b.text /\ a.pros = b.pros /\ a.cons = b.cons /\ a.summary = b.summary

\* Valid reviews: a rating, a timestamp of any kind, and text fields that are
\* None or strings.
Datetimes ==
    { Datetime(w, us, tz, fold) :
        w \in 1..3, us \in {0, 5},
        tz \in { << >>, FixedOffset(0), FixedOffset(2), RulesZone }, fold \in {0, 1} }

StrOrNone == { PyNone, PyVal("str", ""), PyVal("str", "a") }

RoundTripReviews ==
    { ReviewOf(<< t >>, r, x, p, c, sm) :
        t \in Datetimes, r \in { << 0 >>, << 5 >> },
        x \in StrOrNone, p \in StrOrNone, c \in { PyNone }, sm \in { PyNone, PyVal("str", "a") } }

\* Review.from_representation(review.to_representation())
RoundTrip ==
    \E review \in RoundTripReviews :
        PureCall("from_representation", review,
                 from_representation(to_representation(review).value))

InitModels ==
    /\ NoRegistry
    /\ NoHealth
    /\ NoHarness

NextModels == RoundTrip

SpecModels == InitModels /\ [][NextModels]_vars

\* ------------------------------------------------------------------------
\* The file provider under dispatch
\* ------------------------------------------------------------------------
\* The file a jsonf:// url names: whether it is a file, and what it holds:
\* text that is not JSON, an object without "items", an object whose "items"
\* is not a list, or an object whose "items" lists representations.
JsonFile(is_file, content, items) == [is_file |-> is_file, content |-> content, items |-> items]

\* JsonFsReviewsProvider.get_reviews on that file.
jsonfs_get_reviews(file) ==
    IF ~file.is_file THEN Fetch("InvalidURLError", << >>)
    ELSE IF file.content = "undecodable"
    THEN FetchRaisedFrom("ReviewsParseException", "JSONDecodeError")
    ELSE IF file.content = "no items" THEN Fetch("ReviewsParseException", << >>)
    ELSE IF file.content = "items not a list" THEN Fetch("ReviewsParseException", << >>)
    ELSE Fetch("", [i \in 1..Len(file.items) |-> from_representation(file.items[i]).value])

\* The files: the items are representations of reviews.
ItemRepresentations ==
    { to_representation(r).value : r \in { Review(<< T1 >>, 5), Review(<< T1 >>, 3), Review(<< T2 >>, 5) } }

JsonFiles ==
    { JsonFile(FALSE, "", << >>), JsonFile(TRUE, "undecodable", << >>),
      JsonFile(TRUE, "no items", << >>), JsonFile(TRUE, "items not a list", << >>) }
    \cup { JsonFile(TRUE, "items", rs) : rs \in BSeq(ItemRepresentations, MaxReviews) }

\* parse_reviews on a registry that holds the provider of the package, whose
\* get_reviews reads one of the files or, for a provider of the network,
\* raises an exception of the HTTP client.
InitFile ==
    /\ site \in { jsonfs_get_reviews(file) : file \in JsonFiles }
                \cup { Fetch(e, << >>) : e \in HttpClientErrors }
    /\ eps = << >>
    /\ plugins_dir = get_local_providers_dir
    /\ Constructed
    /\ NoHealth
    /\ NoHarness

NextFile == ParseReviews

SpecFile == InitFile /\ [][NextFile]_vars

\* ------------------------------------------------------------------------
\* Record, then replay
\* ------------------------------------------------------------------------
\* with capture_http_requests() as captured_data: reviews = get_reviews(url),
\* on the network.
CaptureRun ==
    /\ live = << >>
    /\ NoPatch
    /\ \E i \in 1..Len(test_urls) :
        LET run == capture_http_requests(program[test_urls[i]], web) IN
        /\ live' = << [url |-> test_urls[i], url_index |-> i - 1,
                       reviews |-> run.returned, captured_data |-> run.captured_data] >>
        /\ last' = Outcome("capture_http_requests", test_urls[i], Returned(run.returned))
    /\ UNCHANGED <<eps, plugins_dir, providers, loadCalls, fresh, firstQueries, neverCleared,
                   site, gen, healthVars, patchVars, program, web, mocks, cache>>

\* save_mock_response of the captured run.
SaveMockResponse ==
    /\ live # << >>
    /\ ~dict_has(mocks, MockKey("valid", live[1].url_index))
    /\ LET written == save_mock_response(mocks, live[1].url_index, live[1].url,
                                         Fetch("", live[1].reviews), live[1].captured_data,
                                         "valid")
       IN  /\ written.exc = ""
           /\ mocks' = written.value
           /\ last' = Outcome("save_mock_response", live[1].url, Returned(<< >>))
    /\ UNCHANGED <<eps, plugins_dir, providers, loadCalls, fresh, firstQueries, neverCleared,
                   site, gen, healthVars, patchVars, program, web, cache, live>>

\* load_mock_data, register_mock_responses and get_reviews(url) under the
\* RequestsMock, without the network: the branch _test_test_url takes when
\* the record exists and holds captured exchanges.
ReplayRun ==
    /\ last.op = "save_mock_response"
    /\ \E i \in 1..Len(test_urls) :
        /\ replays(load_mock_data(mocks, i - 1, "valid"))
        /\ last' = Outcome("replay", test_urls[i],
                           replay(program[test_urls[i]],
                                  load_mock_data(mocks, i - 1, "valid")[1].captured_data))
    /\ UNCHANGED <<eps, plugins_dir, providers, loadCalls, fresh, firstQueries, neverCleared,
                   site, gen, healthVars, harnessVars>>

\* The sites: each request is answered call after call by one of these.
WebResponses ==
    { Response(200, "p1", Headers("application/json", "gzip", "")),
      Response(200, "p2", Headers("application/json", "", "2")),
      Response(404, "", Headers("text/html", "", "")) }

WebRequests == { Request(m, PageUrl) : m \in {"GET", "POST"} }

Webs == [WebRequests -> { rs \in BSeq(WebResponses, MaxRequests) : Len(rs) = MaxRequests }]

\* The providers: up to MaxRequests requests, the same one again included.
ReplayPrograms ==
    { Program(rq, h) : rq \in BSeq(WebRequests, MaxRequests), h \in BOOLEAN }

InitReplay ==
    /\ NoRegistry
    /\ test_urls = << << "x" >> >>
    /\ invalid_urls = << >>
    /\ provider_name = << "p" >>
    /\ fetch_of = [u \in HealthUrls |-> Fetch("", << >>)]
    /\ \E prog \in ReplayPrograms : program = [u \in HealthUrls |-> prog]
    /\ web \in Webs
    /\ mocks = << >>
    /\ cache = << >>
    /\ live = << >>
    /\ NoPatch

NextReplay ==
    \/ CaptureRun
    \/ SaveMockResponse
    \/ ReplayRun

SpecReplay == InitReplay /\ [][NextReplay]_vars

\* ------------------------------------------------------------------------
\* Properties of the registry cache
\* ------------------------------------------------------------------------
\* C1: on an instance that was never cleared, once a query has been made,
\* discovery has been invoked exactly once, whatever the queries ended in.
C1_DiscoveryOnceWithoutClear ==
    (neverCleared /\ ~fresh) => loadCalls = 1

\* C2: the number of discoveries equals the number of queries that were the
\* first of the instance or the first after a clear_cache.
C2_DiscoveryPerFirstQuery ==
    loadCalls = firstQueries

\* C3: get_provider_for_url on a loaded mapping returns the first provider,
\* in the insertion order of the mapping, whose check_url accepts the url,
\* and raises ProviderLoadError carrying the url when no provider accepts it.
C3_FirstMatchInInsertionOrder ==
    (last.op = "get_provider_for_url" /\ providers.loaded) =>
        LET m == providers.map
            hits == { i \in 1..Len(m) : check_url(m[i].val, last.arg) }
        IN  IF hits # {}
            THEN /\ last.exc = ""
                 /\ \E i \in hits : /\ last.value = m[i].val
                                    /\ \A j \in hits : i <= j
            ELSE /\ last.exc = "ProviderLoadError"
                 /\ last.value.url = last.arg

\* C3 witness: the provider returned is followed in the mapping by a matching
\* provider whose name sorts before its own.
C3_Witness ==
    /\ last.op = "get_provider_for_url"
    /\ providers.loaded
    /\ last.exc = ""
    /\ \E j \in 1..Len(providers.map) :
           /\ check_url(providers.map[j].val, last.arg)
           /\ NameRank(providers.map[j].key) < NameRank(last.value.name)

\* ------------------------------------------------------------------------
\* Properties of dispatch
\* ------------------------------------------------------------------------
\* C4: the provider parse_reviews fetches from is the provider that
\* Registry.get_provider_for_url returns for the url on the same registry.
C4_DispatchUsesRegistryScan ==
    (last.op = "parse_reviews" /\ providers.loaded /\ last.fetches = 1) =>
        get_provider_for_url(providers.map, last.arg) = Returned(last.instantiated)

\* Injective maps of 1..n onto itself.
Perms(n) == { p \in [1..n -> 1..n] : \A i, j \in 1..n : p[i] = p[j] => i = j }

\* C5: on success the reviews returned are those get_reviews produced, none
\* added and none dropped, the created_at of each review being at least that
\* of the review after it, and reviews of equal created_at in the order in
\* which get_reviews produced them.
C5_SortedDescStablePermutation ==
    (last.op = "parse_reviews" /\ last.exc = "") =>
        LET out == last.value.reviews
            inp == site.reviews
        IN  /\ Len(out) = Len(inp)
            /\ \E p \in Perms(Len(inp)) :
                   /\ \A i \in 1..Len(out) : out[i] = inp[p[i]]
                   /\ \A i \in 1..(Len(out) - 1) :
                          datetime_ge(out[i].created_at[1], out[i + 1].created_at[1])
                   /\ \A i, j \in 1..Len(out) :
                          (i < j /\ datetime_eq(out[i].created_at[1], out[j].created_at[1]))
                              => p[i] < p[j]

\* C6: when no provider of the loaded registry accepts the url, parse_reviews
\* raises NoMatchedProvidersException carrying the url, instantiates no
\* provider and calls no get_reviews.
C6_NoMatchRaisesNoMatchedProviders ==
    (/\ last.op = "parse_reviews"
     /\ providers.loaded
     /\ \A i \in 1..Len(providers.map) : ~check_url(providers.map[i].val, last.arg)) =>
        /\ last.exc = "NoMatchedProvidersException"
        /\ last.value.url = last.arg
        /\ last.instantiated = NoCls
        /\ last.fetches = 0

\* C6 witness: a dispatch on a registry that holds providers, none of which
\* accepts the url.
C6_Witness ==
    /\ last.op = "parse_reviews"
    /\ providers.loaded
    /\ Len(providers.map) >= 1
    /\ \A i \in 1..Len(providers.map) : ~check_url(providers.map[i].val, last.arg)
    /\ last.exc = "NoMatchedProvidersException"

\* C7: when get_reviews of the matched provider fails with a failure of the
\* HTTP client, parse_reviews raises ReviewsParseException caused by that
\* failure, after one get_reviews call.
C7_NetworkFailureBecomesParseFailure ==
    (last.op = "parse_reviews" /\ last.instantiated # NoCls /\ site.exc \in HttpClientErrors) =>
        /\ last.exc = "ReviewsParseException"
        /\ last.cause = site.exc
        /\ last.fetches = 1

\* The outcomes of the taxonomy: a tagged collection, no-matched-provider,
\* invalid-URL, parse failure.
Taxonomy == {"", "NoMatchedProvidersException", "InvalidURLError", "ReviewsParseException"}

\* C8: every parse_reviews on a loaded registry ends in an outcome of the
\* taxonomy, whatever get_reviews of the matched provider raises or returns.
C8_OutcomeInTaxonomy ==
    (last.op = "parse_reviews" /\ providers.loaded) => last.exc \in Taxonomy

\* ------------------------------------------------------------------------
\* Properties of discovery
\* ------------------------------------------------------------------------
\* The classes the two loaders yield, entry points first.
Yielded == load_entry_point_providers(eps) \o load_fs_providers(plugins_dir)

\* C9: the mapping of load_all_providers_map holds each name once, under its
\* own name, and holds for each name the class yielded last under it; a
\* name declared twice raises nothing.
C9_NameKeyedLastWins ==
    last.op = "load_all_providers_map" =>
        LET m == last.value IN
        /\ (\A i \in 1..Len(Yielded) : Yielded[i].name # NoName) => last.exc = ""
        /\ last.exc = "" =>
            /\ \A i, j \in 1..Len(m) : m[i].key = m[j].key => i = j
            /\ \A i \in 1..Len(m) : m[i].val.name = m[i].key
            /\ \A i \in 1..Len(Yielded) :
                   \E k \in 1..Len(m) :
                       /\ m[k].key = Yielded[i].name
                       /\ (\A j \in (i + 1)..Len(Yielded) : Yielded[j].name # Yielded[i].name)
                              => m[k].val = Yielded[i]
            /\ \A k \in 1..Len(m) : \E i \in 1..Len(Yielded) : m[k].val = Yielded[i]

\* C9 witness: an entry-point provider and a filesystem provider declare the
\* same name, and the mapping built holds the filesystem provider.
C9_Witness ==
    /\ last.op = "load_all_providers_map"
    /\ last.exc = ""
    /\ \E k \in 1..Len(last.value), i \in 1..Len(Yielded) :
           /\ Yielded[i].origin = "ep"
           /\ Yielded[i].name = last.value[k].key
           /\ last.value[k].val.origin = "fs"

\* A plugin that loads to a provider class declaring a name.
WellFormed(obj) == obj.isType /\ obj.isProvider /\ ~obj.isBase /\ obj.name \in Names

WellFormedEp(ep) == ep.load = "ok" /\ WellFormed(ep.obj)

WellFormedFs(d) ==
    /\ d.is_dir /\ ~d.hidden /\ d.has_file /\ d.exec_ok
    /\ WellFormed(module_getattr(d.attrs, "provider"))

\* C10: discovery completes without raising, and what it returns holds
\* every well-formed provider, whatever other plugins are installed.
C10_DiscoveryResilient ==
    /\ last.op \in {"load_entry_point_providers", "load_fs_providers", "load_all_providers_map"}
           => last.exc = ""
    /\ last.op = "load_entry_point_providers" =>
           \A i \in 1..Len(eps) :
               WellFormedEp(eps[i]) => \E k \in 1..Len(last.value) : last.value[k] = Cls("ep", i, eps[i].obj)
    /\ last.op = "load_fs_providers" =>
           \A i \in 1..Len(plugins_dir.entries) :
               WellFormedFs(plugins_dir.entries[i]) =>
                   \E k \in 1..Len(last.value) : last.value[k].name = module_getattr(plugins_dir.entries[i].attrs, "provider").name
    /\ last.op = "load_all_providers_map" =>
           /\ \A i \in 1..Len(eps) :
                  WellFormedEp(eps[i]) => \E k \in 1..Len(last.value) : last.value[k].key = eps[i].obj.name
           /\ \A i \in 1..Len(plugins_dir.entries) :
                  WellFormedFs(plugins_dir.entries[i]) =>
                      \E k \in 1..Len(last.value) :
                          last.value[k].key = module_getattr(plugins_dir.entries[i].attrs, "provider").name

\* ------------------------------------------------------------------------
\* Properties of listing
\* ------------------------------------------------------------------------
\* C11: list_providers returns the providers of the cached mapping, each once
\* and none missing, in ascending order of name, whatever order they were
\* loaded in.
C11_ListSortedByName ==
    (last.op = "list_providers" /\ last.exc = "") =>
        LET out == last.value
            vals == dict_values(providers.map)
        IN  /\ providers.loaded
            /\ Len(out) = Len(vals)
            /\ { out[i] : i \in 1..Len(out) } = { vals[i] : i \in 1..Len(vals) }
            /\ \A i, j \in 1..Len(out) :
                   i < j => NameRank(out[i].name) < NameRank(out[j].name)

\* C11 witness: a listing of a mapping that was loaded in descending order of
\* name.
C11_Witness ==
    /\ last.op = "list_providers"
    /\ last.exc = ""
    /\ Len(providers.map) >= 2
    /\ NameRank(providers.map[1].key) > NameRank(providers.map[2].key)
    /\ Len(last.value) = Len(providers.map)

\* ------------------------------------------------------------------------
\* Properties of health check
\* ------------------------------------------------------------------------
\* C12: check_health never raises: whatever get_reviews raises or returns,
\* check_health returns a list of results.
C12_CheckHealthNeverRaises ==
    last.op = "check_health" => last.exc = ""

\* C13: whenever check_health returns, a call with a url returns one result,
\* for that url; a call without url returns one result per entry of
\* test_urls, in order and also after unhealthy entries; with an empty
\* test_urls it returns the single unhealthy result "No test URLs configured"
\* with an empty url, and get_reviews is not called.
C13_OneResultPerUrl ==
    (last.op = "check_health" /\ last.exc = "") =>
        /\ last.arg # << >> =>
              /\ Len(last.value) = 1
              /\ last.value[1].url = last.arg[1]
              /\ last.fetches = 1
        /\ (last.arg = << >> /\ test_urls # << >>) =>
              /\ Len(last.value) = Len(test_urls)
              /\ \A i \in 1..Len(test_urls) : last.value[i].url = test_urls[i]
              /\ last.fetches = Len(test_urls)
        /\ (last.arg = << >> /\ test_urls = << >>) =>
              /\ last.value = << [is_healthy |-> FALSE, message |-> << "No test URLs configured" >>,
                                  url |-> << >>, reviews_count |-> 0] >>
              /\ last.fetches = 0

\* C13 witness: a check of all test urls in which a healthy result follows an
\* unhealthy one.
C13_Witness ==
    /\ last.op = "check_health"
    /\ last.exc = ""
    /\ last.arg = << >>
    /\ Len(last.value) = 2
    /\ ~last.value[1].is_healthy
    /\ last.value[2].is_healthy

\* Every review of rs passes check_review_fields.
AllFieldsValid(rs) == \A i \in 1..Len(rs) : check_review_fields(rs[i]).exc = ""

\* The results of get_reviews-based checks in the last outcome.
C14_Checks ==
    IF last.op = "check_health" /\ last.exc = "" /\ ~(last.arg = << >> /\ test_urls = << >>)
    THEN { last.value[i] : i \in 1..Len(last.value) }
    ELSE { }

\* C14: a health check that gives a result is healthy exactly when
\* get_reviews raised nothing and returned at least one review, all of which
\* pass field validation; a healthy result counts the reviews, an unhealthy
\* one counts 0 and its message tells the fetch exception, the empty result
\* or the validation failure.
C14_HealthyIffValidReviews ==
    \A h \in C14_Checks :
        LET f == fetch_of[h.url] IN
        /\ h.is_healthy <=> (f.exc = "" /\ Len(f.reviews) >= 1 /\ AllFieldsValid(f.reviews))
        /\ h.is_healthy => h.reviews_count = Len(f.reviews)
        /\ ~h.is_healthy =>
              /\ h.reviews_count = 0
              /\ f.exc # "" => h.message = << "Error fetching reviews: ", f.exc >>
              /\ (f.exc = "" /\ f.reviews = << >>) => h.message = << "No reviews found" >>
              /\ (f.exc = "" /\ f.reviews # << >>) => h.message = << "Review validation failed" >>

\* C14 witness: an unhealthy result for reviews of which the first is valid
\* and a later one is not.
C14_Witness ==
    \E h \in C14_Checks :
        /\ ~h.is_healthy
        /\ h.message = << "Review validation failed" >>
        /\ Len(fetch_of[h.url].reviews) >= 2
        /\ check_review_fields(fetch_of[h.url].reviews[1]).exc = ""

\* ------------------------------------------------------------------------
\* Properties of review validation
\* ------------------------------------------------------------------------
\* None, or a string
NoneOrStr(v) == v.type = "NoneType" \/ v.type = "str"

\* C15: check_review_fields accepts a review exactly when its created_at and
\* its rating are not None and each of text, pros, cons and summary is None
\* or a string; a rating of 0 is accepted, a number or a list in a text field
\* is rejected, 0 and the empty list included.
C15_AcceptsIffRequiredAndTyped ==
    last.op = "check_review_fields" =>
        (last.exc = "" <=>
            /\ last.arg.created_at # << >>
            /\ last.arg.rating # << >>
            /\ NoneOrStr(last.arg.text)
            /\ NoneOrStr(last.arg.pros)
            /\ NoneOrStr(last.arg.cons)
            /\ NoneOrStr(last.arg.summary))

\* C20: validate_reviews of the mock utilities and _validate_reviews of the
\* response recorder accept a collection exactly when the validation of
\* health check accepts it.
C20_GatesAgreeWithHealthCheck ==
    /\ last.op = "validate_reviews" =>
          (last.value[1] <=> health_validation(last.arg).exc = "")
    /\ last.op = "_validate_reviews" =>
          ((last.exc = "" /\ last.value[1]) <=> health_validation(last.arg).exc = "")

\* C16: a step of the test command whose key has a mock record, re-record
\* not being forced, runs the provider in replay and writes no record,
\* whatever the captured exchanges of the record are.
C16_ExistingRecordIsReplayed ==
    (/\ last.op \in {"_test_test_url", "_test_invalid_url"}
     /\ last.had_record
     /\ ~last.arg.re_record)
        => (last.mode = "replay" /\ ~last.saved)

\* The step of last got reviews from get_reviews that fail the validation.
GotInvalidReviews ==
    /\ fetch_of[last.arg.url].exc = ""
    /\ health_validation(fetch_of[last.arg.url]).exc # ""

\* The record of the key of the step of last exists.
RecordOfLastExists ==
    IF last.op = "_record_test_url"
    THEN dict_has(cache, CacheKey(provider_name, << "test_url", last.arg.url_index >>))
    ELSE dict_has(mocks, MockKey("valid", last.arg.url_index))

\* C17: a recording pass for a test url that gets reviews failing the
\* validation returns a failure and leaves no record where none was.
C17_InvalidReviewsNotPersisted ==
    (/\ last.op \in {"_test_test_url", "_record_test_url"}
     /\ last.mode = "record"
     /\ GotInvalidReviews)
        => (/\ last.exc = ""
            /\ ~last.value[1]
            /\ (~last.had_record => ~RecordOfLastExists))

\* C18: an invalid-url step in a recording pass succeeds exactly when
\* get_reviews raised InvalidURLError, and fails when get_reviews returned.
C18_SuccessIffInvalidURLError ==
    (last.op = "_test_invalid_url" /\ last.mode = "record")
        => (/\ last.exc = ""
            /\ last.value[1] <=> (fetch_of[last.arg.url].exc = "InvalidURLError"))

\* C19: the replay of a saved capture returns the reviews of the captured
\* run, the same ones in the same order.
C19_ReplayReturnsCapturedReviews ==
    last.op = "replay" => (last.exc = "" /\ last.value = live[1].reviews)

\* C21: the review made by from_representation of the representation of a
\* valid review equals that review in every field.
C21_RoundTripEqual ==
    last.op = "from_representation" => (last.exc = "" /\ review_eq(last.value, last.arg))

\* The names in the answer of the last query.
NamesOfLast == { last.value[i] : i \in 1..Len(last.value) }

\* C22: with a custom plugins directory configured, the names the registry
\* answers include those of the providers shipped in the package, "dummy" and
\* "JSON FS".
C22_BuiltinsWithCustomDir ==
    (last.op = "get_default_registry" /\ last.arg # << >> /\ last.exc = "")
        => ("dummy" \in NamesOfLast /\ "JSON FS" \in NamesOfLast)

\* C23: a ReviewsParseException that escapes parse_reviews has a chained
\* cause.
C23_ParseFailureHasCause ==
    (last.op = "parse_reviews" /\ last.exc = "ReviewsParseException") => last.cause # ""

\* C24: when a step of run_single_provider_test or of record_provider fails,
\* every record the same run persisted in an earlier step is still there
\* afterwards with the content that was written, and the run has failed.
C24_EarlierRecordsSurviveFailure ==
    LET store == IF last.op = "record_provider" THEN cache ELSE mocks IN
    last.op \in {"run_single_provider_test", "record_provider"} =>
        \A i \in 1..Len(last.steps) :
            ~last.steps[i].ok =>
                /\ last.exc # "" \/ last.value = << FALSE >>
                /\ \A j \in 1..(i - 1) :
                       last.steps[j].saved =>
                           /\ dict_has(store, last.steps[j].key)
                           /\ dict_get(store, last.steps[j].key) = last.steps[j].written[1]

\* C28: after run_single_provider_test with re_record true, no mock record
\* exists for a test url whose live fetch raised.
C28_NoRecordAfterFailedReRecord ==
    (last.op = "run_single_provider_test" /\ last.arg.re_record) =>
        \A i \in 1..Len(test_urls) :
            fetch_of[test_urls[i]].exc # "" => ~dict_has(mocks, MockKey("valid", i - 1))

\* C29: clear_provider_mocks leaves every record of the other providers of
\* the directory present and unchanged, and returns the number of records
\* of the provider that existed.
C29_ClearsOnlyOwnRecords ==
    last.op = "clear_provider_mocks" =>
        LET before == last.before
            own(item) == is_record_of(provider_name, item.key)
        IN  /\ \A i \in 1..Len(before) :
                   (\E q \in {Neighbour(provider_name), Stranger} : is_record_of(q, before[i].key)) =>
                       /\ dict_has(mocks, before[i].key)
                       /\ dict_get(mocks, before[i].key) = before[i].val
            /\ last.value = << Len(SelectSeq(before, own)) >>

\* C25: the class of a plugin is the binding provider when the module has
\* one, otherwise the class named <title-cased directory name>Provider,
\* otherwise the first provider subclass of the attribute scan other than
\* the base; when the candidate is not a provider class the plugin is
\* skipped instead of falling back.
C25_ResolutionPriority ==
    last.op = "load_fs_provider" =>
        LET d == plugins_dir.entries[last.arg]
            attrs == d.attrs
            conventional == IF Len(d.name) = 1 THEN titled_provider(d.name[1]) ELSE "Shop.ComProvider"
            scanned == { i \in 1..Len(attrs) : scan_hit(attrs[i].obj) }
            candidate ==
                IF module_getattr(attrs, "provider") # None THEN module_getattr(attrs, "provider")
                ELSE IF module_getattr(attrs, conventional) # None
                THEN module_getattr(attrs, conventional)
                ELSE IF scanned # {}
                THEN attrs[CHOOSE i \in scanned : \A j \in scanned : i <= j].obj
                ELSE None
        IN  last.value = IF candidate.isType /\ candidate.isProvider /\ ~candidate.isBase
                         THEN candidate ELSE None

\* C26: a query during which discovery raises lets the exception escape and
\* leaves the registry unloaded, and the query after it runs discovery
\* again instead of answering from a cache.  A query runs _load_providers
\* when it is called, iter_providers at the first next() of its generator.
C26_FailedDiscoveryNotCached ==
    [][ LET runs_load_providers ==
                /\ last'.op \notin {"clear_cache", "iter_providers"}
                /\ ~(last'.op = "next" /\ gen.state = "suspended")
        IN  /\ (runs_load_providers /\ ~providers.loaded
                  /\ load_all_providers_map(eps, plugins_dir).exc # "") =>
                    /\ last'.exc = load_all_providers_map(eps, plugins_dir).exc
                    /\ providers' = Unloaded
            /\ (last.exc = "AttributeError" /\ runs_load_providers) =>
                    loadCalls' = loadCalls + 1 ]_vars

\* A second query has run discovery again after a first one in which it
\* raised, with no clear_cache between them.
C26_Witness ==
    /\ last.exc = "AttributeError"
    /\ loadCalls = 2
    /\ neverCleared
    /\ ~providers.loaded

\* The override case of C27 for the classes yielded i-th, j-th and k-th: the
\* filesystem provider yielded k-th is the last of a name first yielded
\* i-th, an entry-point provider of another name is yielded between them,
\* both match url, and no provider of a name yielded before the i-th does.
OverrideBetween(i, j, k, url) ==
    LET final(n) == Yielded[CHOOSE h \in 1..Len(Yielded) :
                              /\ Yielded[h].name = n
                              /\ \A g \in (h + 1)..Len(Yielded) : Yielded[g].name # n]
    IN  /\ i < j /\ j < k
        /\ Yielded[i].name = Yielded[k].name
        /\ Yielded[k].origin = "fs"
        /\ \A h \in (k + 1)..Len(Yielded) : Yielded[h].name # Yielded[k].name
        /\ Yielded[j].origin = "ep"
        /\ Yielded[j].name # Yielded[k].name
        /\ check_url(Yielded[k], url)
        /\ check_url(final(Yielded[j].name), url)
        /\ \A h \in 1..(i - 1) : ~check_url(final(Yielded[h].name), url)

\* C27: a provider that overrides an earlier one of its name stands in the
\* cached mapping where that name was first loaded, so for a url that it and
\* an entry-point provider loaded in between both match,
\* get_provider_for_url returns the overriding filesystem provider.
C27_OverrideKeepsScanPosition ==
    (last.op = "get_provider_for_url" /\ providers.loaded) =>
        \A i, j, k \in 1..Len(Yielded) :
            OverrideBetween(i, j, k, last.arg) =>
                /\ last.exc = ""
                /\ last.value = Yielded[k]
                /\ \E a, b \in 1..Len(providers.map) :
                       /\ a < b
                       /\ providers.map[a].key = Yielded[k].name
                       /\ providers.map[b].key = Yielded[j].name

\* A query for a url that the overriding filesystem provider and an
\* entry-point provider loaded before it both match has been answered.
C27_Witness ==
    /\ last.op = "get_provider_for_url"
    /\ providers.loaded
    /\ \E i, j, k \in 1..Len(Yielded) : OverrideBetween(i, j, k, last.arg)

\* The functions the open contexts have saved and installed form one chain:
\* the outermost saved the functions of the library, each other one saved
\* the capturing functions of the context that encloses it, and
\* requests.get and requests.post are the capturing functions of the
\* innermost, or the functions of the library when no context is open.
ClientAsOnEntry(cl, cs) ==
    LET enclosing(id) == { o \in open_contexts(cs) : o < id }
        below(id) == IF enclosing(id) = { } THEN 0
                     ELSE CHOOSE o \in enclosing(id) : \A other \in enclosing(id) : other <= o
    IN  /\ \A id \in open_contexts(cs) :
               /\ cs[id].original_get = Fn("get", below(id))
               /\ cs[id].original_post = Fn("post", below(id))
        /\ cl = IF open_contexts(cs) = { } THEN LibraryClient
                ELSE [get |-> Fn("get", innermost(cs)), post |-> Fn("post", innermost(cs))]

\* C30: when a capture context is left, by the end of its body or by an
\* exception, requests.get and requests.post are again what they were when
\* it was entered, also for nested contexts left innermost first; and a call
\* made after a context was left adds nothing to what it captured and gets
\* the response of the network.
C30_CaptureAlwaysUnwinds ==
    [][ /\ ClientAsOnEntry(client', contexts')
        /\ \A id \in 1..Len(contexts) :
               contexts[id].exit # "" => contexts'[id].captured_data = contexts[id].captured_data
        /\ last'.op \in {"requests.GET", "requests.POST"} => last'.value = PatchedPage ]_vars

\* A call is made after two nested contexts were left, the inner one by an
\* exception, each having captured a call.
C30_Witness ==
    /\ last.op \in {"requests.GET", "requests.POST"}
    /\ Len(contexts) = 2
    /\ contexts[2].original_get = Fn("get", 1)
    /\ contexts[2].exit = "raised"
    /\ contexts[1].exit # ""
    /\ contexts[1].captured_data # << >>
    /\ contexts[2].captured_data # << >>

====
